---- MODULE Spec2Model ----
(***************************************************************************)
(* Model of recruit-reveal-backend/src/routes/predict.js: the what-if      *)
(* solver (POST /api/predict/whatif/:pos), the predict route               *)
(* (POST /api/predict/:pos) and the schema cache (fetchSchemaOnce).        *)
(*                                                                         *)
(* Numbers.  Every stat value, slider bound and midpoint is an integer     *)
(* count of 0.0001 (the code rounds midpoints and deltas with toFixed(4)): *)
(* 4.9 is 49000, 0.0001 is 1, 1e-3 is 10.  Probabilities and the threshold *)
(* are integer percents.                                                   *)
(***************************************************************************)
EXTENDS Integers, Sequences, FiniteSets, TLC

\* ---------------------------------------------------------------- bounds
\* cap on the clock of the schema-cache specification, in ticks of TickMs
MaxTicks == 3
\* the clock advances in steps of five minutes
TickMs == 300000
\* number of concurrent callers of fetchSchemaOnce in SpecSchema
NCallers == 2
\* the clock of one invokeServing call: step (ms) and number of steps
ServingTickMs == 10000
MaxServingTicks == 6
\* the clock of a triggerPipeline call advances in steps of TriggerTickMs, at
\* most MaxTriggerTicks times
TriggerTickMs == 60000
MaxTriggerTicks == 6
\* the number of profile requests the provider starts
MaxFetches == 3
\* the number of profile requests that can be in flight at a time
NProfileReqs == 2
\* the number of profile requests that arrive
MaxProfileRequests == 3

\* ------------------------------------------------------- JS value model
\* the JS value `undefined` where the model needs to name it as a string
Undefined == "<undefined>"
\* classId null (decodePrediction on a reply without predictions)
NullId == -1

Num(n) == [t |-> "num", v |-> n]
JsNull == [t |-> "null", v |-> 0]
Str(x) == [t |-> "str", v |-> x]
\* the value undefined as a property value
JsUndefined == [t |-> "undefined", v |-> 0]
\* a non-numeric string
JsStr == Str("fast")

\* truthiness of a property value: 0, null, undefined and "" are falsy
Truthy(x) ==
  CASE x.t = "num" -> x.v # 0
    [] x.t \in {"null", "undefined"} -> FALSE
    [] OTHER -> x.v # ""

\* Number(base[field]) with isFinite: a number is itself, null and "" are 0,
\* a non-numeric string and a missing property (undefined) are NaN; the
\* strings of the model are non-numeric or empty
IsFiniteNumber(rec, k) ==
  /\ k \in DOMAIN rec
  /\ (rec[k].t \in {"num", "null"} \/ (rec[k].t = "str" /\ rec[k].v = ""))
NumberOf(rec, k) == IF rec[k].t = "num" THEN rec[k].v ELSE 0

\* the members every plain object inherits from Object.prototype: `k in obj`
\* and obj[k] find them although they are not keys of the object
ObjectPrototypeKeys ==
  {"constructor", "toString", "toLocaleString", "valueOf", "hasOwnProperty",
   "isPrototypeOf", "propertyIsEnumerable", "__proto__",
   "__defineGetter__", "__defineSetter__", "__lookupGetter__", "__lookupSetter__"}
\* k in obj
In(k, obj) == k \in DOMAIN obj \/ k \in ObjectPrototypeKeys

Abs(x) == IF x < 0 THEN -x ELSE x
Max2(a, b) == IF a > b THEN a ELSE b
Min2(a, b) == IF a < b THEN a ELSE b

\* ------------------------------------------------------------ constants
\* the class mapping of WHAT_IF_IMPLEMENTATION.md
ID2DIVDoc == [i \in {0, 2, 3, 4} |-> CASE i = 0 -> "D3/NAIA" [] i = 2 -> "D2"
                                        [] i = 3 -> "FCS" [] OTHER -> "Power 5"]
ID2DIV == [i \in 0..3 |-> CASE i = 0 -> "D3/NAIA" [] i = 1 -> "D2"
                             [] i = 2 -> "FCS" [] OTHER -> "Power 5"]
\* Object.fromEntries(Object.entries(ID2DIV).map(([k, v]) => [v, +k]))
\* Object.fromEntries(Object.entries(ID2DIV).map(([k, v]) => [v, +k]))
DIV2ID == [l \in {ID2DIV[i] : i \in DOMAIN ID2DIV} |-> CHOOSE i \in DOMAIN ID2DIV : ID2DIV[i] = l]

Slider(k, lb, mn, mx, st, d) ==
  [key |-> k, label |-> lb, min |-> mn, max |-> mx, step |-> st, direction |-> d]

SLIDERS ==
  [p \in {"QB", "RB", "WR"} |->
    CASE p = "QB" ->
      << Slider("Forty_Yard_Dash", "40-yard (s)", 44000, 54000, 100, "lower_better"),
         Slider("Senior_YPG", "Senior Yds/Game", 500000, 5000000, 50000, "higher_better"),
         Slider("Senior_TD_Passes", "Senior TD Passes", 0, 700000, 10000, "higher_better"),
         Slider("Vertical_Jump", "Vertical (in)", 200000, 450000, 5000, "higher_better") >>
    [] p = "RB" ->
      << Slider("Forty_Yard_Dash", "40-yard (s)", 43000, 52000, 100, "lower_better"),
         Slider("Senior_YPG", "Senior Yds/Game", 200000, 3500000, 50000, "higher_better"),
         Slider("Senior_TD", "Senior TD", 0, 400000, 10000, "higher_better"),
         Slider("Vertical_Jump", "Vertical (in)", 240000, 440000, 5000, "higher_better") >>
    [] OTHER ->
      << Slider("Forty_Yard_Dash", "40-yard (s)", 43000, 52000, 100, "lower_better"),
         Slider("Senior_rec_yds", "Senior Rec Yards", 1000000, 25000000, 100000, "higher_better"),
         Slider("Senior_rec_td", "Senior Rec TD", 0, 400000, 10000, "higher_better"),
         Slider("Vertical_Jump", "Vertical (in)", 240000, 440000, 5000, "higher_better") >> ]

\* SLIDERS[pos] || []
SlidersOf(pos) == IF pos \in DOMAIN SLIDERS THEN SLIDERS[pos] ELSE << >>

\* the serving URL of a position; the three DATABRICKS_MODEL_*_URL are set
endpointForPos(pos) == IF pos \in {"QB", "RB", "WR"} THEN pos ELSE Undefined

\* iteration cap of the binary search
\* a loop that allows one more iteration
MaxIterPlus == 9 + 1
MaxIter == 9
\* Math.abs(hi - lo) < 1e-3
BreakWidth == 10
\* the 0.0001 by which a higher_better search steps past the midpoint
Epsilon == 1

\* ------------------------------------------------ the serving endpoint
\* The trained model is an opaque deterministic function of the record it is
\* sent.  A classifier of the model is [col, cut, sense, shape]: it "hits" on
\* a record according to sense ("always", "never", "ge": record[col] >= cut,
\* "lt": record[col] < cut) and answers in one of the endpoint's two reply
\* forms, or with a body that has no predictions array.
HitId == 3
MissId == 0
HitProbs == << 5, 5, 20, 70 >>
MissProbs == << 70, 20, 5, 5 >>

Deciders ==
  { [col |-> c, cut |-> k, sense |-> s, shape |-> "class"] :
       c \in {"undefined"}, k \in {47000, 300000}, s \in {"ge", "lt"} }
  \cup { [col |-> "Forty_Yard_Dash", cut |-> 47000, sense |-> "lt", shape |-> "class"] }
  \cup { [col |-> "undefined", cut |-> 0, sense |-> s, shape |-> sh] :
       s \in {"always", "never"}, sh \in {"class", "probs"} }
  \cup { [col |-> "undefined", cut |-> 300000, sense |-> "ge", shape |-> "probs"],
         [col |-> "undefined", cut |-> 0, sense |-> "never", shape |-> "malformed"] }

\* a classifier: a decider with the class id, or the probability vector (in
\* percent), it answers on a hit and on a miss
WithReplies(c, h, m, hp, mp) ==
  [col |-> c.col, cut |-> c.cut, sense |-> c.sense, shape |-> c.shape,
   hit |-> h, miss |-> m, hprobs |-> hp, mprobs |-> mp]

Classifiers == { WithReplies(c, HitId, MissId, HitProbs, MissProbs) : c \in Deciders }

\* classifiers that answer every class id: 0..3, and 4 which the mapping of
\* the route does not know
OneHot(i) == [j \in 1..4 |-> IF j = i + 1 THEN 70 ELSE 10]
TierReplies == { << 2, 0 >>, << 1, 2 >>, << 3, 1 >>, << 0, 3 >>, << 2, 4 >> }
TierClassifiers ==
  { WithReplies([col |-> "undefined", cut |-> 300000, sense |-> "ge", shape |-> sh],
                pr[1], pr[2], OneHot(pr[1]), OneHot(pr[2])) :
      sh \in {"class", "probs"}, pr \in TierReplies }

Hits(c, rec) ==
  CASE c.sense = "always" -> TRUE
    [] c.sense = "never" -> FALSE
    [] c.sense = "ge" -> IsFiniteNumber(rec, c.col) /\ NumberOf(rec, c.col) >= c.cut
    [] OTHER -> IsFiniteNumber(rec, c.col) /\ NumberOf(rec, c.col) < c.cut

\* the parsed body of a 200 reply: { predictions: [id] }, { predictions:
\* [[p0..p3]] }, or a body without a predictions array
ServingReply(c, rec) ==
  CASE c.shape = "class" ->
         [kind |-> "class", id |-> IF Hits(c, rec) THEN c.hit ELSE c.miss, probs |-> << >>]
    [] c.shape = "probs" ->
         [kind |-> "probs", id |-> 0, probs |-> IF Hits(c, rec) THEN c.hprobs ELSE c.mprobs]
    [] OTHER -> [kind |-> "malformed", id |-> 0, probs |-> << >>]

\* outcomes of one invokeServing call: the parsed body, or a throw (non-2xx
\* status, abort after the timeout, and the rethrown error of a rejected
\* fetch or of a failed res.text())
ServingFaults == {"httpError", "timeout", "fetchError", "bodyError"}

\* probs.indexOf(Math.max(...probs)), 0-based
ArgMax(probs) ==
  (CHOOSE i \in 1..Len(probs) :
     /\ \A j \in 1..Len(probs) : probs[j] <= probs[i]
     /\ \A j \in 1..(i - 1) : probs[j] < probs[i]) - 1

MaxOf(probs) == probs[ArgMax(probs) + 1]

decodePrediction(data) ==
  CASE data.kind = "malformed" -> [classId |-> NullId, hasProbs |-> FALSE, probs |-> << >>]
    [] data.kind = "probs" -> [classId |-> ArgMax(data.probs), hasProbs |-> TRUE, probs |-> data.probs]
    [] OTHER -> [classId |-> data.id, hasProbs |-> FALSE, probs |-> << >>]

padToSchemaOverwrite(rec, cols) ==
  IF ~cols.known THEN rec
  ELSE [c \in DOMAIN rec \cup cols.names |-> IF c \in cols.names THEN JsNull ELSE rec[c]]
\* if (!cols) return rec; otherwise a copy of rec with out[c] = null for every
\* column c for which !(c in out): a column named like an inherited member
\* is found by `in` and gets no key
padToSchema(rec, cols) ==
  IF ~cols.known THEN rec
  ELSE [c \in DOMAIN rec \cup { n \in cols.names : ~In(n, rec) } |->
          IF c \in DOMAIN rec THEN rec[c] ELSE JsNull]

\* ------------------------------------------------------ searchThreshold
\* the destructured parameter `field` of searchThreshold({field, min, max,
\* direction}): the slider's property of that name, undefined when it has none
FieldOf(s) == IF "field" \in DOMAIN s THEN s.field ELSE Undefined
\* the property key base[field] and { [field]: mid } use
PropertyKey(f) == IF f = Undefined THEN "undefined" ELSE f

\* { ...base, [field]: mid }
WithField(base, f, mid) ==
  [k \in DOMAIN base \cup {PropertyKey(f)} |-> IF k = PropertyKey(f) THEN Num(mid) ELSE base[k]]

\* const targetId = DIV2ID[targetLabel]; ok = out.probs ? (out.probs[targetId]
\* ?? 0) >= threshold : out.classId === targetId
Success(out, targetLabel, threshold) ==
  IF targetLabel \notin DOMAIN DIV2ID
  THEN out.hasProbs /\ 0 >= threshold
  ELSE IF out.hasProbs
       THEN (IF DIV2ID[targetLabel] + 1 <= Len(out.probs)
             THEN out.probs[DIV2ID[targetLabel] + 1] ELSE 0) >= threshold
       ELSE out.classId = DIV2ID[targetLabel]

\* +(((lo + hi) / 2).toFixed(4)).  An even sum has an exact midpoint.  An odd
\* sum lies half a unit between two 4-decimal values and toFixed rounds the
\* double it is given, which is a hair above or below that half: either
\* neighbour is a possible result.
Midpoints(l, h) ==
  IF (l + h) % 2 = 0 THEN {(l + h) \div 2} ELSE {(l + h) \div 2, (l + h) \div 2 + 1}

\* const clampedStart = Math.max(min, Math.min(max, startVal)); the search
\* never reads it: the range is always the whole of [min, max]
ClampedStart(s, base) ==
  Max2(s.min, Min2(s.max, NumberOf(base, PropertyKey(FieldOf(s)))))

\* a search that narrows the same way for both directions
GoLowerSame(direction, ok) == ok

\* const goLower = direction === 'higher_better' ? ok : !ok
GoLower(direction, ok) == IF direction = "higher_better" THEN ok ELSE ~ok

NoBest == [found |-> FALSE, value |-> 0, classId |-> NullId, hasProbs |-> FALSE, probs |-> << >>]

\* the object searchThreshold returns when best is set
SearchResult(s, base, b) ==
  [field |-> FieldOf(s),
   from |-> NumberOf(base, PropertyKey(FieldOf(s))),
   to |-> b.value,
   delta |-> b.value - NumberOf(base, PropertyKey(FieldOf(s))),
   division_id |-> b.classId,
   division_label |-> IF b.classId \in DOMAIN ID2DIV THEN ID2DIV[b.classId] ELSE "null",
   hasProbs |-> b.hasProbs,
   probabilities |-> b.probs]

\* { ...s, ...got }
TryEntry(s, got) ==
  [k \in DOMAIN s \cup DOMAIN got |-> IF k \in DOMAIN got THEN got[k] ELSE s[k]]

\* tries.sort((a, b) => Math.abs(a.delta) - Math.abs(b.delta)): stable
RECURSIVE InsertByAbsDelta(_, _)
InsertByAbsDelta(sorted, e) ==
  IF sorted = << >> THEN << e >>
  ELSE IF Abs(e.delta) < Abs(Head(sorted).delta)
       THEN << e >> \o sorted
       ELSE << Head(sorted) >> \o InsertByAbsDelta(Tail(sorted), e)

\* a handler that forgets the sort
SortUnsorted(t) == t

RECURSIVE SortByAbsDelta(_)
SortByAbsDelta(t) ==
  IF t = << >> THEN << >>
  ELSE InsertByAbsDelta(SortByAbsDelta(SubSeq(t, 1, Len(t) - 1)), t[Len(t)])

\* a filter that ignores the requested candidates
FilterSlidersAll(pos, cand) == SlidersOf(pos)

\* candidates absent, or an array of slider keys
FilterSliders(pos, cand) ==
  SelectSeq(SlidersOf(pos), LAMBDA s : ~cand.given \/ s.key \in cand.keys)


\* ------------------------------------------------------------- inputs
Positions == {"QB", "WR", "K"}
TargetLabels == {"Power 5", "FCS"}
\* Number(req.body?.threshold ?? 0.5), in percent
Thresholds == {50, 80}
\* req.body.candidates: absent, or an array of keys
CandidateLists ==
  { [given |-> FALSE, keys |-> {}],
    [given |-> TRUE, keys |-> {"Forty_Yard_Dash"}],
    [given |-> TRUE, keys |-> {"Forty_Yard_Dash", "Vertical_Jump"}],
    [given |-> TRUE, keys |-> {"Bench_Press"}] }

OptField(k, vals) == { [x \in {} |-> JsNull] } \cup { [x \in {k} |-> v] : v \in vals }
Merge(f, g) == [x \in DOMAIN f \cup DOMAIN g |-> IF x \in DOMAIN f THEN f[x] ELSE g[x]]

\* req.body.base: a JSON object; "undefined" is an ordinary JSON key
Bases ==
  { Merge(a, c) :
      a \in OptField("Forty_Yard_Dash", {Num(49000), Num(44000), JsStr}),
      c \in OptField("undefined", {Num(49000), Num(40000)}) }

\* what fetchSchemaOnce resolves with: null, or the endpoint's column names
Schemas ==
  { [known |-> FALSE, names |-> {}],
    [known |-> TRUE, names |-> {"Forty_Yard_Dash", "Vertical_Jump", "Shuttle"}] }

\* the schemas of the predict route: also an endpoint that declares a column
\* named like a member every object inherits
PredictSchemas ==
  Schemas \cup { [known |-> TRUE, names |-> {"Forty_Yard_Dash", "toString"}] }

\* --------------------------------------------------------------- state
\* the what-if handler: its position (wpc), the request, the served model,
\* the schema it got, the filtered sliders, the search state of slider si, the
\* results so far and the response; nq counts the classifier queries issued
\* per candidate and okq holds the candidates with a successful probe
VARIABLES wpc, wreq, clf, schema, sliders, si, lo, hi, best, it, tries, wresp, nq, okq
\* the predict handler: position, request, served model, schema, the outcome
\* of its invokeServing call and the response
VARIABLES ppc, preq, pclf, pschema, pout, psent, presp
\* fetchSchemaOnce: the clock (ms), SCHEMA_CACHE and the concurrent callers
VARIABLES now, cache, callers
\* one invokeServing call: its position, the served model and the record, the
\* time since the call started (ms), whether the abort timer is armed, the
\* HTTP status received and the outcome
VARIABLES ipc, iclf, irec, ielapsed, itimer, istatus, iresult
\* the /evaluate handler: its position, the request body, MOCK_SYNAPSE, the
\* pipeline behind triggerPipeline, the user id in use, the pipeline result,
\* the number of triggerPipeline calls, the number of eval rows written and
\* the response
VARIABLES epc, ereq, eenv, epipe, euser, eresult, etriggered, esaved, eresp
\* one triggerPipeline call: its position, MOCK_SYNAPSE, whether the Azure
\* variables are set, the position parameter, the Synapse run's status and the
\* time (ms since the call) it last changed, the time since the call and the
\* outcome of the call
\* the profile routes: the users table, the profileFallback map, the values
\* each email's acknowledged updates have set, and the last response
VARIABLES users, profileFallback, acked, rresp, rflight, rarrived
\* UserProfileProvider: useSession's status and session.user.email, the
\* profile, loading and error states, the fetches awaiting their response and
\* the number of fetches started
VARIABLES sessionStatus, session, profile, loading, error, inflight, started
\* the wizard and dashboard pages: the page on screen, whether the effects of
\* its mount have run, the wizard's step, selectedPosition, currentSteps, form
\* values, isSubmitting and evalResult (the fallback result), the
\* handleSubmit calls awaiting /api/evaluate, sessionStorage's evalResult
\* item, the dashboard's evalData, loading and error, its pending redirect
\* timers, the body /api/evaluate answered with, and the last step taken
VARIABLES page, ready, step, selectedPosition, currentSteps, formValues,
          isSubmitting, evalResult, submits, storedResult, evalData, dashLoading,
          dashError, timers, answered, lastAction
VARIABLES tpc, tenv, tconfig, tposition, trun, trunAt, telapsed, toutcome

wvars == << wpc, wreq, clf, schema, sliders, si, lo, hi, best, it, tries, wresp, nq, okq >>
pvars == << ppc, preq, pclf, pschema, pout, psent, presp >>
svars == << now, cache, callers >>
ivars == << ipc, iclf, irec, ielapsed, itimer, istatus, iresult >>
rvars == << users, profileFallback, acked, rresp, rflight, rarrived >>
cvars == << sessionStatus, session, profile, loading, error, inflight, started >>
zvars == << page, ready, step, selectedPosition, currentSteps, formValues,
           isSubmitting, evalResult, submits, storedResult, evalData, dashLoading,
           dashError, timers, answered, lastAction >>
tvars == << tpc, tenv, tconfig, tposition, trun, trunAt, telapsed, toutcome >>
evars == << epc, ereq, eenv, epipe, euser, eresult, etriggered, esaved, eresp >>
vars == << wvars, pvars, svars, ivars, evars, tvars, rvars, cvars, zvars >>

NoReq == [pos |-> "", base |-> [x \in {} |-> JsNull], targetLabel |-> "FCS",
          threshold |-> 50, candidates |-> [given |-> FALSE, keys |-> {}]]
NoSchema == [known |-> FALSE, names |-> {}]
NoResp == [status |-> 0, error |-> "", recommendation |-> << >>, candidates_tried |-> << >>]
ErrResp(code, msg) == [status |-> code, error |-> msg, recommendation |-> << >>, candidates_tried |-> << >>]
\* recommendation = tries[0] || null: the empty sequence is null
OkResp(tr) ==
  [status |-> 200, error |-> "",
   recommendation |-> IF tr = << >> THEN << >> ELSE << tr[1] >>,
   candidates_tried |-> tr]

\* no what-if request
WIdle ==
  /\ wpc = "off" /\ wreq = NoReq /\ clf = CHOOSE c \in Classifiers : TRUE
  /\ schema = NoSchema /\ sliders = << >> /\ si = 0 /\ lo = 0 /\ hi = 0
  /\ best = NoBest /\ it = 0 /\ tries = << >> /\ wresp = NoResp
  /\ nq = [k \in {} |-> 0] /\ okq = {}

\* a request POST /whatif/:pos has arrived: its parameters and body, and the
\* model the position's endpoint serves
WInit ==
  /\ wpc = "idle"
  /\ wreq \in [pos : Positions, base : Bases, targetLabel : TargetLabels,
               threshold : Thresholds, candidates : CandidateLists]
  /\ clf \in Classifiers
  /\ schema = NoSchema /\ sliders = << >> /\ si = 0 /\ lo = 0 /\ hi = 0
  /\ best = NoBest /\ it = 0 /\ tries = << >> /\ wresp = NoResp
  /\ nq = [k \in {} |-> 0] /\ okq = {}

\* POST /whatif/:pos up to `await fetchSchemaOnce(pos)`
WhatIfReceive ==
  /\ wpc = "idle"
  /\ IF endpointForPos(wreq.pos) = Undefined
     THEN /\ wpc' = "done"
          /\ wresp' = ErrResp(400, "Unknown position or missing serving URL")
     ELSE /\ wpc' = "schema"
          /\ wresp' = NoResp
  /\ UNCHANGED << wreq, clf, schema, sliders, si, lo, hi, best, it, tries, nq, okq >>

\* The synchronous run of the handler from the start of the search of slider
\* k, with the results tr so far, to its next await: searchThreshold returns
\* null at once for a slider without a finite start value; the first slider
\* with one enters the loop and awaits its first invokeServing; when none is
\* left the handler sorts the results and responds.
Continue(sl, k, tr) ==
  LET open == { j \in k..Len(sl) : IsFiniteNumber(wreq.base, PropertyKey(FieldOf(sl[j]))) }
  IN IF open = {}
     THEN /\ wpc' = "done"
          /\ tries' = SortByAbsDelta(tr)
          /\ wresp' = OkResp(SortByAbsDelta(tr))
          /\ si' = 0 /\ lo' = 0 /\ hi' = 0 /\ best' = NoBest /\ it' = 0
     ELSE LET j == CHOOSE x \in open : \A y \in open : x <= y
          IN /\ wpc' = "probe"
             /\ tries' = tr
             /\ wresp' = NoResp
             /\ si' = j /\ lo' = sl[j].min /\ hi' = sl[j].max /\ best' = NoBest /\ it' = 0

\* fetchSchemaOnce resolves; the sliders are filtered by the candidates
WhatIfSchema ==
  /\ wpc = "schema"
  /\ \E sch \in Schemas :
       /\ schema' = sch
       /\ sliders' = FilterSliders(wreq.pos, wreq.candidates)
       /\ nq' = [k \in { sliders'[j].key : j \in 1..Len(sliders') } |-> 0]
       /\ IF Len(sliders') = 0
          THEN /\ wpc' = "done"
               /\ wresp' = ErrResp(400, "No candidate sliders for this position.")
               /\ UNCHANGED << si, lo, hi, best, it, tries >>
          ELSE Continue(sliders', 1, << >>)
  /\ UNCHANGED << wreq, clf, okq >>

\* one iteration of the search loop: the awaited invokeServing call returns
\* or throws; a throw leaves the handler through its catch with a 500
WhatIfProbe ==
  /\ wpc = "probe"
  /\ \E mid \in Midpoints(lo, hi), fault \in {"none"} \cup ServingFaults :
       LET s == sliders[si]
           rec == padToSchema(WithField(wreq.base, FieldOf(s), mid), schema)
           out == decodePrediction(ServingReply(clf, rec))
           ok == Success(out, wreq.targetLabel, wreq.threshold)
           gl == GoLower(s.direction, ok)
           e == IF s.direction = "higher_better" THEN Epsilon ELSE 0
           nhi == IF gl THEN mid - e ELSE hi
           nlo == IF gl THEN lo ELSE mid + e
           nbest == IF gl THEN [found |-> TRUE, value |-> mid, classId |-> out.classId,
                                hasProbs |-> out.hasProbs, probs |-> out.probs]
                    ELSE best
           stop == Abs(nhi - nlo) < BreakWidth \/ it + 1 >= MaxIter
       IN /\ nq' = [nq EXCEPT ![s.key] = @ + 1]
          /\ IF fault # "none"
             THEN /\ wpc' = "done"
                  /\ wresp' = ErrResp(500, fault)
                  /\ UNCHANGED << si, lo, hi, best, it, tries, okq >>
             ELSE /\ okq' = IF ok THEN okq \cup {s.key} ELSE okq
                  /\ IF stop
                     THEN Continue(sliders, si + 1,
                            IF nbest.found
                            THEN Append(tries, TryEntry(s, SearchResult(s, wreq.base, nbest)))
                            ELSE tries)
                     ELSE /\ lo' = nlo /\ hi' = nhi /\ best' = nbest /\ it' = it + 1
                          /\ UNCHANGED << wpc, si, tries, wresp >>
  /\ UNCHANGED << wreq, clf, schema, sliders >>

\* ------------------------------------------------- POST /api/predict/:pos
\* mapped.<dst> = data.<src> when data.<src> is truthy
CommonMap ==
  { << "player_name", "Player_Name" >>, << "state", "State" >>,
    << "grad_year", "Grad_year" >>, << "height_inches", "Height_Inches" >>,
    << "weight_lbs", "Weight_Lbs" >>, << "forty_yard_dash", "Forty_Yard_Dash" >>,
    << "vertical_jump", "Vertical_Jump" >>, << "shuttle", "Shuttle" >>,
    << "broad_jump", "Broad_Jump" >> }
RBMap ==
  { << "senior_rush_yds", "Senior_Yds" >>, << "senior_touches", "Senior_Touches" >>,
    << "senior_avg", "Senior_Avg" >>, << "senior_rush_rec", "Senior_Rec" >>,
    << "senior_rush_rec_yds", "Senior_Rec_Yds" >>, << "senior_rush_td", "Senior_TD" >>,
    << "junior_ypg", "Junior_YPG" >> }

Has(d, k) == k \in DOMAIN d /\ Truthy(d[k])
\* x || dflt
OrElse(d, k, dflt) == IF Has(d, k) THEN d[k] ELSE dflt

\* the object `mapped` of mapFrontendFields
Mapped(data, position) ==
  LET pairs == IF position = "RB" THEN CommonMap \cup RBMap ELSE CommonMap
      live == { pr \in pairs : Has(data, pr[1]) }
      byName == Has(data, "playerName") /\ "Player_Name" \notin DOMAIN data
      jun == position = "RB" /\ Has(data, "junior_ypg")
      dom == DOMAIN data \cup { pr[2] : pr \in live }
               \cup (IF byName THEN {"Player_Name"} ELSE {})
               \cup (IF jun THEN {"Junior_Yds"} ELSE {})
  IN [k \in dom |->
        IF k = "Player_Name" /\ byName THEN data["playerName"]
        ELSE IF k = "Junior_Yds" /\ jun
             THEN (IF data["junior_ypg"].t = "num" THEN Num(data["junior_ypg"].v * 10) ELSE JsNull)
        ELSE IF \E pr \in live : pr[2] = k
             THEN data[(CHOOSE pr \in live : pr[2] = k)[1]]
        ELSE data[k]]

\* the object `defaults` of mapFrontendFields
Defaults(mp, position) ==
  LET common ==
        [College |-> OrElse(mp, "College", Str("Unknown")),
         Division |-> OrElse(mp, "Division", Str("Unknown")),
         High_School |-> OrElse(mp, "High_School", Str("Unknown")),
         State |-> OrElse(mp, "State", Str("TX")),
         MaxPreps_URL |-> OrElse(mp, "MaxPreps_URL", Str("")),
         Scrape_Status |-> OrElse(mp, "Scrape_Status", Str("manual")),
         Match_Confidence |-> OrElse(mp, "Match_Confidence", Str("high")),
         Notes |-> OrElse(mp, "Notes", Str(""))]
      touches == OrElse(mp, "Senior_Touches", Num(1800000))
      rb ==
        [Senior_Yds |-> OrElse(mp, "Senior_Yds", Num(8000000)),
         Senior_Avg |-> OrElse(mp, "Senior_Avg", Num(45000)),
         Senior_Touches |-> touches,
         \* mapped.Senior_YPG || (mapped.Senior_Yds ? mapped.Senior_Yds / 10 : 80):
         \* a truthy Senior_Yds that is no number gives NaN, which JSON.stringify
         \* writes as null; the quotient is kept to the resolution of 0.0001
         Senior_YPG |-> OrElse(mp, "Senior_YPG",
                          IF Has(mp, "Senior_Yds")
                          THEN (IF mp["Senior_Yds"].t = "num"
                                THEN Num(mp["Senior_Yds"].v \div 10) ELSE JsNull)
                          ELSE Num(800000)),
         Senior_Run |-> OrElse(mp, "Senior_Run", touches),
         Senior_Tot |-> OrElse(mp, "Senior_Tot", touches),
         Senior_Rec |-> OrElse(mp, "Senior_Rec", Num(150000)),
         Senior_Rec_Yds |-> OrElse(mp, "Senior_Rec_Yds", Num(1200000)),
         Senior_Rec_Avg |-> OrElse(mp, "Senior_Rec_Avg", Num(80000)),
         Senior_Lng |-> OrElse(mp, "Senior_Lng", Num(350000)),
         Senior_TD |-> OrElse(mp, "Senior_TD", Num(60000)),
         Junior_Yds |-> OrElse(mp, "Junior_Yds", Num(6000000)),
         Junior_Avg |-> OrElse(mp, "Junior_Avg", Num(42000)),
         Junior_Touches |-> OrElse(mp, "Junior_Touches", Num(1400000)),
         Junior_YPG |-> OrElse(mp, "Junior_YPG", Num(600000)),
         Junior_Run |-> OrElse(mp, "Junior_Run", Num(1400000)),
         Junior_Tot |-> OrElse(mp, "Junior_Tot", Num(1400000)),
         Junior_Rec |-> OrElse(mp, "Junior_Rec", Num(100000)),
         Junior_Rec_Yds |-> OrElse(mp, "Junior_Rec_Yds", Num(800000)),
         Junior_Rec_Avg |-> OrElse(mp, "Junior_Rec_Avg", Num(80000)),
         Junior_Lng |-> OrElse(mp, "Junior_Lng", Num(300000)),
         Junior_TD |-> OrElse(mp, "Junior_TD", Num(40000))]
  IN IF position = "RB" THEN Merge(rb, common) ELSE common

\* { ...defaults, ...mapped }
mapFrontendFields(data, position) ==
  Merge(Mapped(data, position), Defaults(Mapped(data, position), position))

\* String(req.params.pos || '').toLowerCase() and .toUpperCase()
\* A string whose case the code folds is a sequence of characters.
UpperLetters ==
  << "A", "B", "C", "D", "E", "F", "G", "H", "I", "J", "K", "L", "M",
     "N", "O", "P", "Q", "R", "S", "T", "U", "V", "W", "X", "Y", "Z" >>
LowerLetters ==
  << "a", "b", "c", "d", "e", "f", "g", "h", "i", "j", "k", "l", "m",
     "n", "o", "p", "q", "r", "s", "t", "u", "v", "w", "x", "y", "z" >>
LowerChar(c) ==
  IF \E i \in 1..26 : UpperLetters[i] = c
  THEN LowerLetters[CHOOSE i \in 1..26 : UpperLetters[i] = c] ELSE c
UpperChar(c) ==
  IF \E i \in 1..26 : LowerLetters[i] = c
  THEN UpperLetters[CHOOSE i \in 1..26 : LowerLetters[i] = c] ELSE c
\* x.toLowerCase() and x.toUpperCase()
ToLower(x) == [i \in DOMAIN x |-> LowerChar(x[i])]
ToUpper(x) == [i \in DOMAIN x |-> UpperChar(x[i])]
\* the characters as one string
RECURSIVE StringOf(_)
StringOf(x) == IF x = << >> THEN "" ELSE Head(x) \o StringOf(Tail(x))

\* n / d rounded to the nearest integer, a tie upwards
RoundHalfUp(n, d) == (2 * n + d) \div (2 * d)
\* the products p * w of a probability p = pr / 100 and a weight w of the
\* response that the IEEE double multiplication leaves just below a tie of
\* the exact product: 0.58 * 25 is 14.499999999999998
ShortProducts == { << 58, 25 >> }
\* Math.round(p * w) for p = pr / 100
RoundTimes(pr, w) ==
  IF << pr, w >> \in ShortProducts THEN (pr * w) \div 100
  ELSE RoundHalfUp(pr * w, 100)

PredictPositions == { << "q", "b" >>, << "Q", "b" >>, << "R", "B" >>, << "w", "r" >>, << "k" >> }
PredictBodies ==
  { Merge(a, Merge(b, Merge(c, d))) :
      a \in OptField("Player_Name", {Str("Sam")}),
      b \in OptField("forty_yard_dash", {Num(46000), Num(49000)}),
      c \in OptField("senior_rush_yds", {Num(12000000), JsStr}),
      d \in { [x \in {} |-> JsNull],
              [k \in {"vertical_jump", "shuttle"} |->
                 IF k = "vertical_jump" THEN Num(320000) ELSE Num(43000)] } }

\* no record: nothing was sent to the model
NoRecord == [x \in {} |-> JsNull]
NoPReq == [pos |-> << "k" >>, body |-> NoRecord]
NoPResp ==
  [status |-> 0, error |-> "", position |-> "", predicted_tier |-> "",
   probability |-> 0, score |-> 0, performance_score |-> 0, combine_score |-> 0,
   upside_score |-> 0, playerName |-> "", hasProbs |-> FALSE, probs |-> << >>]
PErrResp(code, msg) == [NoPResp EXCEPT !.status = code, !.error = msg]

\* the response object of the predict route; probability is in percent, the
\* fallback 0.5 is 50; confidence_score and predicted_division repeat
\* probability and predicted_tier
PredictResponse(pos, body, decoded) ==
  LET pr == IF decoded.hasProbs THEN MaxOf(decoded.probs) ELSE 50
  IN [status |-> 200, error |-> "",
      position |-> StringOf(ToUpper(pos)),
      predicted_tier |-> IF decoded.classId \in DOMAIN ID2DIV
                         THEN ID2DIV[decoded.classId] ELSE "Unknown",
      probability |-> pr,
      score |-> RoundTimes(pr, 100),
      performance_score |-> RoundTimes(pr, 60),
      combine_score |-> RoundTimes(pr, 25),
      upside_score |-> RoundTimes(pr, 15),
      playerName |-> IF Has(body, "Player_Name") THEN body["Player_Name"].v
                     ELSE "Unknown Player",
      hasProbs |-> decoded.hasProbs, probs |-> decoded.probs]

PIdle ==
  /\ ppc = "off" /\ preq = NoPReq /\ pclf = CHOOSE c \in Classifiers : TRUE
  /\ pschema = NoSchema /\ pout = "none" /\ psent = NoRecord /\ presp = NoPResp

\* a request POST /:pos has arrived
PInit ==
  /\ ppc = "idle"
  /\ preq \in [pos : PredictPositions, body : PredictBodies]
  /\ pclf \in Classifiers
  /\ pschema = NoSchema /\ pout = "none" /\ psent = NoRecord /\ presp = NoPResp

\* POST /:pos up to `await fetchSchemaOnce`
PredictReceive ==
  /\ ppc = "idle"
  /\ IF StringOf(ToLower(preq.pos)) \notin {"qb", "rb", "wr"}
     THEN /\ ppc' = "done"
          /\ presp' = PErrResp(400, "pos must be one of 'qb','rb','wr'")
     ELSE IF endpointForPos(StringOf(ToUpper(ToLower(preq.pos)))) = Undefined
     THEN /\ ppc' = "done"
          /\ presp' = PErrResp(400, "No serving endpoint configured for position")
     ELSE /\ ppc' = "schema"
          /\ presp' = NoPResp
  /\ UNCHANGED << preq, pclf, pschema, pout, psent >>

\* fetchSchemaOnce resolves; the record is mapped and padded and sent
PredictSchema ==
  /\ ppc = "schema"
  /\ \E sch \in PredictSchemas : pschema' = sch
  /\ ppc' = "invoke"
  /\ UNCHANGED << preq, pclf, pout, psent, presp >>

\* the record the predict route sends to the model
PredictRecord == padToSchema(mapFrontendFields(preq.body, StringOf(ToUpper(ToLower(preq.pos)))), pschema)

\* invokeServing returns or throws; the response is built
PredictInvoke ==
  /\ ppc = "invoke"
  /\ \E fault \in {"none"} \cup ServingFaults :
       IF fault # "none"
       THEN /\ pout' = fault
            /\ presp' = PErrResp(500, fault)
       ELSE LET data == ServingReply(pclf, PredictRecord)
            IN /\ pout' = data.kind
               /\ presp' = PredictResponse(ToLower(preq.pos), preq.body, decodePrediction(data))
  /\ psent' = PredictRecord
  /\ ppc' = "done"
  /\ UNCHANGED << preq, pclf, pschema >>

\* --------------------------------------------------------- fetchSchemaOnce
\* TTL: 10 minutes
TTL == 600000
SchemaPositions == {"QB", "WR", "K"}
Callers == 1..NCallers
\* the column names an endpoint reports; null when the reply has no schema
NullCols == [known |-> FALSE, names |-> {}]
EndpointCols == [known |-> TRUE, names |-> {"Forty_Yard_Dash", "Vertical_Jump", "Shuttle"}]

NoEntry == [has |-> FALSE, columns |-> NullCols, timestamp |-> 0]
IdleCaller == [pc |-> "idle", pos |-> "K", t0 |-> 0, result |-> NullCols]

SIdle ==
  /\ now = 0
  /\ cache = [p \in SchemaPositions |-> NoEntry]
  /\ callers = [c \in Callers |-> [IdleCaller EXCEPT !.pc = "off"]]

SInit ==
  /\ now = 0
  /\ cache = [p \in SchemaPositions |-> NoEntry]
  /\ callers = [c \in Callers |-> IdleCaller]

FreshAlways(entry, t) == entry.has
\* cached && (now - cached.timestamp) < 600000
Fresh(entry, t) == entry.has /\ (t - entry.timestamp) < TTL

\* fetchSchemaOnce(pos) up to its `await fetch`: a fresh entry is returned, a
\* position without an endpoint gives null, otherwise the fetch starts
SchemaCall(c, p) ==
  /\ callers[c].pc = "idle"
  /\ callers' = [callers EXCEPT ![c] =
       IF Fresh(cache[p], now)
       THEN [pc |-> "returned", pos |-> p, t0 |-> now, result |-> cache[p].columns]
       ELSE IF endpointForPos(p) = Undefined
       THEN [pc |-> "returned", pos |-> p, t0 |-> now, result |-> NullCols]
       ELSE [pc |-> "fetching", pos |-> p, t0 |-> now, result |-> NullCols]]
  /\ UNCHANGED << now, cache >>

\* `await fetch` resolves with the status line: clearTimeout(timeoutId); a
\* non-2xx answer returns null, otherwise the call goes on to `await r.json()`
SchemaFetchHeaders(c, ok) ==
  /\ callers[c].pc = "fetching"
  /\ callers' = [callers EXCEPT ![c].pc = IF ok THEN "json" ELSE "returned",
                                ![c].result = NullCols]
  /\ UNCHANGED << now, cache >>

\* r.json() resolves: the columns (or null) are cached with the time the
\* call started, and returned
SchemaFetchOk(c, cols) ==
  /\ callers[c].pc = "json"
  /\ cache' = [cache EXCEPT ![callers[c].pos] =
                 [has |-> TRUE, columns |-> cols, timestamp |-> callers[c].t0]]
  /\ callers' = [callers EXCEPT ![c].pc = "returned", ![c].result = cols]
  /\ UNCHANGED now

\* the fetch rejects or is aborted by the timeout, or r.json() rejects: the
\* catch block returns null
SchemaFetchFail(c) ==
  /\ callers[c].pc \in {"fetching", "json"}
  /\ callers' = [callers EXCEPT ![c].pc = "returned", ![c].result = NullCols]
  /\ UNCHANGED << now, cache >>

\* the caller's request ends; it may call again
SchemaFinish(c) ==
  /\ callers[c].pc = "returned"
  /\ callers' = [callers EXCEPT ![c] = IdleCaller]
  /\ UNCHANGED << now, cache >>

Tick ==
  /\ now < MaxTicks * TickMs
  /\ now' = now + TickMs
  /\ UNCHANGED << cache, callers >>

\* --------------------------------------------------------- invokeServing
\* setTimeout(() => controller.abort(), 30000)
ServingTimeout == 30000
ServingRecords == Bases

IIdle ==
  /\ ipc = "off" /\ iclf = (CHOOSE c \in Classifiers : TRUE) /\ irec = NoRecord
  /\ ielapsed = 0 /\ itimer = FALSE /\ istatus = 0 /\ iresult = "none"

\* a route is about to call invokeServing(invocationsUrl, record)
IInit ==
  /\ ipc = "idle" /\ iclf \in Classifiers /\ irec \in ServingRecords
  /\ ielapsed = 0 /\ itimer = FALSE /\ istatus = 0 /\ iresult = "none"

\* the timer is armed and the request is sent: `await fetch(...)`
InvokeStart ==
  /\ ipc = "idle"
  /\ ipc' = "headers" /\ itimer' = TRUE /\ ielapsed' = 0
  /\ UNCHANGED << iclf, irec, istatus, iresult >>

\* fetch resolves with the status line and headers; clearTimeout(timeoutId)
\* runs and the handler goes on to `await res.text()`
InvokeHeaders ==
  /\ ipc = "headers"
  /\ \E st \in {200, 500} : istatus' = st
  /\ itimer' = FALSE
  /\ ipc' = "body"
  /\ UNCHANGED << iclf, irec, ielapsed, iresult >>

\* the timer fires while fetch is pending: the fetch rejects with AbortError
\* and the call throws 'Request timeout: ...'
InvokeAbort ==
  /\ ipc = "headers" /\ itimer /\ ielapsed >= ServingTimeout
  /\ ipc' = "thrown" /\ iresult' = "timeout" /\ itimer' = FALSE
  /\ UNCHANGED << iclf, irec, ielapsed, istatus >>

\* fetch rejects for another reason; the catch block clears the timer and
\* rethrows
InvokeFetchError ==
  /\ ipc = "headers"
  /\ ipc' = "thrown" /\ iresult' = "fetchError" /\ itimer' = FALSE
  /\ UNCHANGED << iclf, irec, ielapsed, istatus >>

\* res.text() resolves: a non-2xx status throws 'Serving error', otherwise
\* the parsed body is returned
InvokeBody ==
  /\ ipc = "body"
  /\ IF istatus # 200
     THEN ipc' = "thrown" /\ iresult' = "httpError"
     ELSE ipc' = "returned" /\ iresult' = ServingReply(iclf, irec).kind
  /\ UNCHANGED << iclf, irec, ielapsed, itimer, istatus >>

\* res.text() rejects: the body stream failed
InvokeBodyError ==
  /\ ipc = "body"
  /\ ipc' = "thrown" /\ iresult' = "bodyError"
  /\ UNCHANGED << iclf, irec, ielapsed, itimer, istatus >>

\* time passes while the call is pending; an armed timer fires when its
\* delay has passed, so time does not go on past it
InvokeTick ==
  /\ ipc \in {"headers", "body"}
  /\ ielapsed < MaxServingTicks * ServingTickMs
  /\ ~(itimer /\ ielapsed >= ServingTimeout)
  /\ ielapsed' = ielapsed + ServingTickMs
  /\ UNCHANGED << ipc, iclf, irec, itimer, istatus, iresult >>

\* -------------------------------------------------------- POST /evaluate
CombineFields ==
  {"forty_yard_dash", "vertical_jump", "shuttle", "broad_jump", "bench_press"}

\* an athlete object: Undefined marks a key the object does not have, combine
\* is the set of combine fields it has a value for
NoAthlete ==
  [Player_Name |-> Undefined, name |-> Undefined, position |-> Undefined, combine |-> {}]
AthleteRecords ==
  [Player_Name : {Undefined, "", "John Doe"},
   name : {Undefined, "Al"},
   position : {Undefined, "", "QB", "WR", "constructor"},
   combine : {{}, {"forty_yard_dash", "vertical_jump"}, CombineFields}]
\* !x for a string-valued property: undefined and "" are falsy
Falsy(x) == x \in {Undefined, ""}

\* req.body after express.json({ strict: false }): JSON null, an object with
\* athlete_data (and perhaps position at its root), or the athlete's own keys
\* at the root; user_id may be given, also as "" or 0
UserIds == {JsUndefined, Str(""), Num(0), Str("u1")}
EvalBodies ==
  { [isNull |-> TRUE, has_athlete_data |-> FALSE, athlete_data |-> NoAthlete,
     root |-> NoAthlete, user_id |-> JsUndefined] }
  \cup { [isNull |-> FALSE, has_athlete_data |-> TRUE, athlete_data |-> a,
          root |-> [NoAthlete EXCEPT !.position = p], user_id |-> u] :
           a \in AthleteRecords, p \in {Undefined, "", "RB"}, u \in UserIds }
  \cup { [isNull |-> FALSE, has_athlete_data |-> FALSE, athlete_data |-> NoAthlete,
          root |-> a, user_id |-> u] :
           a \in AthleteRecords, u \in UserIds }

\* process.env.MOCK_SYNAPSE
EnvValues ==
  { << "t", "r", "u", "e" >>, << "T", "R", "U", "E" >>, << "t", "R", "U", "E" >>,
    << "f", "a", "l", "s", "e" >> }
\* const mockMode = String(process.env.MOCK_SYNAPSE).toLowerCase() === 'true'
mockMode(env) == StringOf(ToLower(env)) = "true"
\* what stands behind triggerPipeline: lib/synapse.js, or a pipeline whose
\* result reports imputation flags and feature importance
Pipelines == {"synapse", "reporting"}

\* const athleteData = athlete_data || req.body
AthleteData(body) == IF body.has_athlete_data THEN body.athlete_data ELSE body.root
\* const athletePosition = position || athleteData.position
AthletePosition(body) ==
  IF ~Falsy(body.root.position) THEN body.root.position
  ELSE AthleteData(body).position
\* athleteData.Player_Name || athleteData.name || 'Unknown Player'
PlayerName(body) ==
  IF ~Falsy(AthleteData(body).Player_Name) THEN AthleteData(body).Player_Name
  ELSE IF ~Falsy(AthleteData(body).name) THEN AthleteData(body).name
  ELSE "Unknown Player"

\* a pipeline result; numbers in units of 0.0001.  The keys score,
\* predicted_tier and probability stand for the keys that are passed on as
\* they are (has_score: the value has them); the other has_ fields tell
\* whether the result has the optional key
EmptyObject == [x \in {} |-> 0]
NoFlags == [f \in CombineFields |-> FALSE]
PlainResult(sc, tier, prob) ==
  [has_score |-> TRUE, score |-> sc, predicted_tier |-> tier, probability |-> prob,
   has_imputation_flags |-> FALSE, imputation_flags |-> NoFlags,
   has_data_completeness_warning |-> FALSE, data_completeness_warning |-> FALSE,
   has_feature_importance |-> FALSE, feature_importance |-> EmptyObject,
   has_explainability |-> FALSE, explainability |-> EmptyObject]
NoResult == PlainResult(0, "", 0)

\* mockResponses of triggerPipeline
mockResponses ==
  [p \in {"QB", "RB", "WR"} |->
     CASE p = "QB" -> PlainResult(693000, "FCS", 6930)
       [] p = "RB" -> PlainResult(718000, "FCS", 7180)
       [] OTHER -> PlainResult(735000, "Power5", 7350)]

\* mockResponses is an object literal: a lookup also finds what it inherits
\* from Object.prototype
\* an inherited member (a function, or Object.prototype itself): truthy, and
\* without any of the keys of a result
InheritedMember == [PlainResult(0, "", 0) EXCEPT !.has_score = FALSE]

\* mockResponses[position] || mockResponses.QB
MockResponse(position) ==
  IF position \in DOMAIN mockResponses THEN mockResponses[position]
  ELSE IF position \in ObjectPrototypeKeys THEN InheritedMember
  ELSE mockResponses["QB"]

\* the result of a pipeline that reports what it imputed
mockEvalResult ==
  [PlainResult(693000, "FCS", 6930) EXCEPT
     !.has_imputation_flags = TRUE,
     !.imputation_flags = [f \in CombineFields |->
                             f \in {"forty_yard_dash", "shuttle", "bench_press"}],
     !.has_data_completeness_warning = TRUE,
     !.data_completeness_warning = TRUE,
     !.has_feature_importance = TRUE,
     !.feature_importance = [k \in {"speed_power_ratio", "ath_power", "combine_confidence"} |->
                               CASE k = "speed_power_ratio" -> 2096
                                 [] k = "ath_power" -> 1145
                                 [] OTHER -> 577]]

Resolved(r) == [ok |-> TRUE, result |-> r, error |-> ""]
Rejected(msg) == [ok |-> FALSE, result |-> NoResult, error |-> msg]

\* The outcomes of `await triggerPipeline({ notebookName, pipelineParameters })`.
\* lib/synapse.js in mock mode (String(MOCK_SYNAPSE).toLowerCase() === 'true')
\* resolves with mockResponses[position] || mockResponses.QB; otherwise it
\* throws 'Azure setup failed: ...' from its try block, or a ReferenceError
\* after it, where `client` and `run` are no longer in scope.
triggerPipeline(env, pipe, position) ==
  IF pipe = "reporting"
  THEN { Resolved(mockEvalResult), Rejected("Pipeline failed") }
  ELSE IF mockMode(env)
  THEN { Resolved(MockResponse(position)) }
  ELSE { Rejected("Azure setup failed"), Rejected("client is not defined") }

NoEResp ==
  [status |-> 0, error |-> "", has_score |-> FALSE, score |-> 0, predicted_tier |-> "",
   predicted_division |-> "", probability |-> 0, confidence_score |-> 0,
   feature_importance |-> EmptyObject, imputation_flags |-> NoFlags,
   data_completeness_warning |-> FALSE]
EErrResp(code, msg) == [NoEResp EXCEPT !.status = code, !.error = msg]

\* const enhancedResult = { ...result, predicted_division, confidence_score,
\* feature_importance, imputation_flags, data_completeness_warning }: the keys
\* written after the spread replace those of the result
enhancedResult(result) ==
  [status |-> 200, error |-> "",
   has_score |-> result.has_score,
   score |-> result.score,
   predicted_tier |-> result.predicted_tier,
   probability |-> result.probability,
   predicted_division |-> result.predicted_tier,
   confidence_score |-> result.probability,
   feature_importance |-> IF result.has_explainability THEN result.explainability
                          ELSE EmptyObject,
   imputation_flags |-> [f \in CombineFields |-> FALSE],
   data_completeness_warning |-> FALSE]

EIdle ==
  /\ epc = "off" /\ ereq = CHOOSE b \in EvalBodies : b.isNull
  /\ eenv = << "t", "r", "u", "e" >> /\ epipe = "synapse" /\ euser = JsUndefined
  /\ eresult = NoResult /\ etriggered = 0 /\ esaved = 0 /\ eresp = NoEResp

\* a request POST /evaluate has arrived
EInit ==
  /\ epc = "idle" /\ ereq \in EvalBodies
  /\ eenv \in EnvValues /\ epipe \in Pipelines /\ euser = JsUndefined
  /\ eresult = NoResult /\ etriggered = 0 /\ esaved = 0 /\ eresp = NoEResp

\* the handler up to its first await: destructuring (which throws on null),
\* the two checks, and with a truthy user_id the call of triggerPipeline
EvaluateReceive ==
  /\ epc = "idle"
  /\ IF ereq.isNull
     THEN /\ epc' = "done"
          /\ eresp' = EErrResp(500, "Cannot destructure property 'athlete_data' of 'req.body' as it is null.")
          /\ UNCHANGED << euser, etriggered >>
     ELSE IF ~ereq.has_athlete_data /\ Falsy(ereq.root.position)
     THEN /\ epc' = "done"
          /\ eresp' = EErrResp(400, "Invalid input: athlete_data with position required")
          /\ UNCHANGED << euser, etriggered >>
     ELSE IF Falsy(AthletePosition(ereq))
     THEN /\ epc' = "done"
          /\ eresp' = EErrResp(400, "Position is required for evaluation")
          /\ UNCHANGED << euser, etriggered >>
     ELSE IF Truthy(ereq.user_id)
     THEN /\ epc' = "pipeline"
          /\ euser' = ereq.user_id
          /\ etriggered' = etriggered + 1
          /\ eresp' = NoEResp
     ELSE /\ epc' = "user"
          /\ UNCHANGED << euser, etriggered, eresp >>
  /\ UNCHANGED << ereq, eenv, epipe, eresult, esaved >>

\* `await prisma.user.findFirst(...)` settles: with the test user
\* triggerPipeline is called, without one the handler goes on to
\* `await bcrypt.hash(...)`
EvaluateUser ==
  /\ epc = "user"
  /\ \E o \in {"found", "none", "dbError"} :
       CASE o = "dbError" ->
              /\ epc' = "done"
              /\ eresp' = EErrResp(500, "database error")
              /\ UNCHANGED << euser, etriggered >>
         [] o = "none" ->
              /\ epc' = "hash"
              /\ UNCHANGED << euser, etriggered, eresp >>
         [] OTHER ->
              /\ epc' = "pipeline"
              /\ euser' = Str("test-user")
              /\ etriggered' = etriggered + 1
              /\ eresp' = NoEResp
  /\ UNCHANGED << ereq, eenv, epipe, eresult, esaved >>

\* bcrypt.hash('test123', 10) resolves: the handler goes on to
\* `await prisma.user.create(...)`
EvaluateHash ==
  /\ epc = "hash"
  /\ epc' = "create"
  /\ UNCHANGED << ereq, eenv, epipe, euser, eresult, etriggered, esaved, eresp >>

\* prisma.user.create settles: triggerPipeline is called with the new
\* user's id, or the rejection (the email is unique) leaves through the catch
EvaluateCreateUser ==
  /\ epc = "create"
  /\ \E o \in {"created", "dbError"} :
       IF o = "dbError"
       THEN /\ epc' = "done"
            /\ eresp' = EErrResp(500, "database error")
            /\ UNCHANGED << euser, etriggered >>
       ELSE /\ epc' = "pipeline"
            /\ euser' = Str("test-user")
            /\ etriggered' = etriggered + 1
            /\ eresp' = NoEResp
  /\ UNCHANGED << ereq, eenv, epipe, eresult, esaved >>

\* triggerPipeline settles; in mock mode (MOCK_SYNAPSE === 'true') the
\* response is sent, otherwise the evaluation is saved first
EvaluatePipeline ==
  /\ epc = "pipeline"
  /\ \E o \in triggerPipeline(eenv, epipe, AthletePosition(ereq)) :
       IF ~o.ok
       THEN /\ epc' = "done"
            /\ eresp' = EErrResp(500, o.error)
            /\ UNCHANGED eresult
       ELSE /\ eresult' = o.result
            /\ IF StringOf(eenv) = "true"
               THEN epc' = "done" /\ eresp' = enhancedResult(o.result)
               ELSE epc' = "save" /\ eresp' = NoEResp
  /\ UNCHANGED << ereq, eenv, epipe, euser, etriggered, esaved >>

\* prisma.eval.create, then res.json(enhancedResult)
EvaluateSave ==
  /\ epc = "save"
  /\ \E o \in {"saved", "dbError"} :
       IF o = "dbError"
       THEN /\ epc' = "done"
            /\ eresp' = EErrResp(500, "database error")
            /\ UNCHANGED esaved
       ELSE /\ epc' = "done"
            /\ esaved' = esaved + 1
            /\ eresp' = enhancedResult(eresult)
  /\ UNCHANGED << ereq, eenv, epipe, euser, eresult, etriggered >>

\* ------------------------------------------- triggerPipeline, real mode
\* maxWait = 5 * 60 * 1000
MaxWait == 300000
\* the identifiers the polling loop can see: the parameters and the
\* function-level declarations.  credential, client and run are const
\* declarations of the try block and end with it.
ScopeAfterTry ==
  {"notebookName", "pipelineParameters", "mockMode", "result", "maxWait", "start"}
\* the result triggerPipeline builds when the run has succeeded
RealResult == PlainResult(693000, "FCS", 6930)

\* no triggerPipeline call
TIdle ==
  /\ tpc = "off" /\ tenv = << "t", "r", "u", "e" >> /\ tconfig = TRUE /\ tposition = "QB"
  /\ trun = "none" /\ trunAt = 0 /\ telapsed = 0 /\ toutcome = Rejected("")

\* triggerPipeline has been called: MOCK_SYNAPSE, whether the six Azure
\* variables are set, and pipelineParameters.position
TInit ==
  /\ tpc = "idle" /\ tenv \in EnvValues /\ tconfig \in BOOLEAN
  /\ tposition \in {"QB", "RB", "WR", "K", "constructor"}
  /\ trun = "none" /\ trunAt = 0 /\ telapsed = 0 /\ toutcome = Rejected("")

\* triggerPipeline up to `await client.pipelineRuns.create(...)`
TriggerStart ==
  /\ tpc = "idle"
  /\ IF mockMode(tenv)
     THEN /\ tpc' = "done"
          /\ toutcome' = Resolved(MockResponse(tposition))
     ELSE IF ~tconfig
     THEN /\ tpc' = "done"
          /\ toutcome' = Rejected("Azure setup failed")
     ELSE /\ tpc' = "create"
          /\ UNCHANGED toutcome
  /\ UNCHANGED << tenv, tconfig, tposition, trun, trunAt, telapsed >>

\* pipelineRuns.create settles.  A rejection is rethrown by the catch.  After
\* a run was created the function leaves the try block, enters the loop
\* (Date.now() - start is 0) and evaluates client.pipelineRuns.get(...,
\* run.runId): a ReferenceError when `client` is not in scope, which nothing
\* catches.
TriggerCreated ==
  /\ tpc = "create"
  /\ \E created \in BOOLEAN :
       IF ~created
       THEN /\ tpc' = "done"
            /\ toutcome' = Rejected("Azure setup failed")
            /\ UNCHANGED << trun, trunAt >>
       ELSE /\ trun' = "InProgress"
            /\ trunAt' = telapsed
            /\ IF "client" \in ScopeAfterTry /\ "run" \in ScopeAfterTry
               THEN /\ tpc' = "poll"
                    /\ UNCHANGED toutcome
               ELSE /\ tpc' = "done"
                    /\ toutcome' = Rejected("client is not defined")
  /\ UNCHANGED << tenv, tconfig, tposition, telapsed >>

\* the Synapse run ends, whether or not anyone polls it
RunEnds ==
  /\ trun = "InProgress"
  /\ \E st \in {"Succeeded", "Failed"} : trun' = st
  /\ trunAt' = telapsed
  /\ UNCHANGED << tpc, tenv, tconfig, tposition, telapsed, toutcome >>

\* time passes
TriggerTick ==
  /\ tpc \in {"create", "poll", "done"}
  /\ telapsed < MaxTriggerTicks * TriggerTickMs
  /\ telapsed' = telapsed + TriggerTickMs
  /\ UNCHANGED << tpc, tenv, tconfig, tposition, trun, trunAt, toutcome >>

\* ------------------------------------------------- /api/profile routes
\* the emails of the requests; Undefined is a request without one
ProfileEmails == {"a@example.com"}
ProfileFields == {"name", "position"}
ProfileValues ==
  [f \in ProfileFields |-> IF f = "name" THEN {Str("Ann"), Str("Bo"), Str("")} ELSE {Str("QB")}]
\* the `updates` of a request: values for some of the fields
ProfileUpdates ==
  UNION { { u \in [fs -> UNION { ProfileValues[f] : f \in ProfileFields }] :
              \A f \in fs : u[f] \in ProfileValues[f] } : fs \in SUBSET ProfileFields }

\* a user row, of which the model keeps name, position and profile_complete;
\* Absent is "no row" (findUnique null, Map.get undefined)
Absent == [exists |-> FALSE, name |-> JsNull, position |-> JsNull, profile_complete |-> FALSE]
\* the default profile of both handlers
DefaultProfile == [exists |-> TRUE, name |-> JsNull, position |-> JsNull, profile_complete |-> FALSE]

\* const isCompletingProfile = updates.name && updates.position; if so
\* updates.profile_complete = true
IsCompletingProfile(u) ==
  /\ "name" \in DOMAIN u /\ Truthy(u["name"])
  /\ "position" \in DOMAIN u /\ Truthy(u["position"])

\* { ...existing, ...updates }, and what upsert's update/create writes
ApplyUpdates(existing, u) ==
  [exists |-> TRUE,
   name |-> IF "name" \in DOMAIN u THEN u["name"] ELSE existing.name,
   position |-> IF "position" \in DOMAIN u THEN u["position"] ELSE existing.position,
   profile_complete |-> IsCompletingProfile(u) \/ existing.profile_complete]

\* no update values (an object without keys)
NoUpdates == [x \in {} |-> JsNull]
\* the last response of the profile routes; of a GET it also tells which
\* values had been acknowledged when the request arrived (seen), and whether
\* no update for the email was in flight while it was served (clean)
NoRResp ==
  [route |-> "none", email |-> Undefined, status |-> 0, user |-> Absent,
   seen |-> NoUpdates, clean |-> FALSE]
RResp(route, email, status, user) ==
  [NoRResp EXCEPT !.route = route, !.email = email, !.status = status, !.user = user]

\* the requests being served: a handler is "free" (no request), at its
\* `await prisma.user...` before the database has executed the call ("db"),
\* or the database has executed it and the handler has not yet continued
\* ("settled", result is what the call resolves with)
ProfileReqs == 1..NProfileReqs
FreeReq ==
  [pc |-> "free", route |-> "none", email |-> Undefined, u |-> NoUpdates,
   result |-> Absent, seen |-> NoUpdates, clean |-> FALSE]
UpdateRoutes == {"update", "appUpdate"}
\* an update for the email is being served by a handler other than r
UpdateInFlight(r, email) ==
  \E q \in ProfileReqs \ {r} :
    rflight[q].pc # "free" /\ rflight[q].route \in UpdateRoutes /\ rflight[q].email = email
\* a new update for the email arrives at handler r: the requests for that
\* email that are being served are no longer clean
WithUpdateAt(r, req) ==
  [q \in ProfileReqs |->
     IF q = r THEN req
     ELSE IF rflight[q].pc # "free" /\ rflight[q].email = req.email
          THEN [rflight[q] EXCEPT !.clean = FALSE]
     ELSE rflight[q]]
\* the values acknowledged for an email after the acknowledgement of request
\* req: its values, or when another update overlapped it nothing for its keys
Acknowledged(old, req) ==
  IF req.clean
  THEN [f \in DOMAIN old \cup DOMAIN req.u |-> IF f \in DOMAIN req.u THEN req.u[f] ELSE old[f]]
  ELSE [f \in DOMAIN old \ DOMAIN req.u |-> old[f]]

\* the server has started: empty users table, empty profileFallback
RIdle ==
  /\ users = [e \in ProfileEmails |-> Absent]
  /\ profileFallback = [e \in ProfileEmails |-> Absent]
  /\ acked = [e \in ProfileEmails |-> NoUpdates]
  /\ rresp = NoRResp
  /\ rflight = [r \in ProfileReqs |-> FreeReq]
  /\ rarrived = 0

\* POST /api/profile/update up to `await prisma.user.upsert(...)`
ProfileUpdate(r) ==
  /\ rflight[r].pc = "free"
  /\ rarrived < MaxProfileRequests
  /\ rarrived' = rarrived + 1
  /\ \E email \in ProfileEmails \cup {Undefined}, u \in ProfileUpdates :
       IF email = Undefined
       THEN /\ rresp' = RResp("update", email, 400, Absent)
            /\ UNCHANGED rflight
       ELSE /\ rflight' = WithUpdateAt(r, [FreeReq EXCEPT !.pc = "db", !.route = "update",
                                            !.email = email, !.u = u,
                                            !.clean = ~UpdateInFlight(r, email)])
            /\ UNCHANGED rresp
  /\ UNCHANGED << users, profileFallback, acked >>

\* the database executes the upsert of request r
ProfileUpsert(r) ==
  /\ rflight[r].pc = "db" /\ rflight[r].route = "update"
  /\ users' = [users EXCEPT ![rflight[r].email] =
                 ApplyUpdates(IF @.exists THEN @ ELSE DefaultProfile, rflight[r].u)]
  /\ rflight' = [rflight EXCEPT ![r].pc = "settled", ![r].result = users'[rflight[r].email]]
  /\ UNCHANGED << profileFallback, acked, rresp, rarrived >>

\* the upsert resolves: res.json(updatedUser)
ProfileUpdateSettles(r) ==
  /\ rflight[r].pc = "settled" /\ rflight[r].route = "update"
  /\ rresp' = RResp("update", rflight[r].email, 200, rflight[r].result)
  /\ acked' = [acked EXCEPT ![rflight[r].email] = Acknowledged(@, rflight[r])]
  /\ rflight' = [rflight EXCEPT ![r] = FreeReq]
  /\ UNCHANGED << users, profileFallback, rarrived >>

\* the upsert rejects: the catch merges the updates into profileFallback,
\* and res.json(updatedUser)
ProfileUpdateFallback(r) ==
  /\ rflight[r].pc = "db" /\ rflight[r].route = "update"
  /\ profileFallback' = [profileFallback EXCEPT ![rflight[r].email] =
                           ApplyUpdates(IF @.exists THEN @ ELSE DefaultProfile, rflight[r].u)]
  /\ rresp' = RResp("update", rflight[r].email, 200, profileFallback'[rflight[r].email])
  /\ acked' = [acked EXCEPT ![rflight[r].email] = Acknowledged(@, rflight[r])]
  /\ rflight' = [rflight EXCEPT ![r] = FreeReq]
  /\ UNCHANGED << users, rarrived >>

\* GET /api/profile/get up to `await prisma.user.findUnique(...)`
ProfileGet(r) ==
  /\ rflight[r].pc = "free"
  /\ rarrived < MaxProfileRequests
  /\ rarrived' = rarrived + 1
  /\ \E email \in ProfileEmails \cup {Undefined} :
       IF email = Undefined
       THEN /\ rresp' = RResp("get", email, 400, Absent)
            /\ UNCHANGED rflight
       ELSE /\ rflight' = [rflight EXCEPT ![r] =
                             [FreeReq EXCEPT !.pc = "db", !.route = "get", !.email = email,
                                             !.seen = acked[email],
                                             !.clean = ~UpdateInFlight(r, email)]]
            /\ UNCHANGED rresp
  /\ UNCHANGED << users, profileFallback, acked >>

\* the database executes the findUnique of request r
ProfileFind(r) ==
  /\ rflight[r].pc = "db" /\ rflight[r].route = "get"
  /\ rflight' = [rflight EXCEPT ![r].pc = "settled", ![r].result = users[rflight[r].email]]
  /\ UNCHANGED << users, profileFallback, acked, rresp, rarrived >>

\* the response of a GET: the row, or the default profile when there is none
GetResponse(req, user) ==
  [RResp("get", req.email, 200, IF user.exists THEN user ELSE DefaultProfile)
     EXCEPT !.seen = req.seen, !.clean = req.clean]

\* findUnique resolves: res.json(user)
ProfileGetSettles(r) ==
  /\ rflight[r].pc = "settled" /\ rflight[r].route = "get"
  /\ rresp' = GetResponse(rflight[r], rflight[r].result)
  /\ rflight' = [rflight EXCEPT ![r] = FreeReq]
  /\ UNCHANGED << users, profileFallback, acked, rarrived >>

\* findUnique rejects: the catch reads profileFallback.get(email)
ProfileGetFallback(r) ==
  /\ rflight[r].pc = "db" /\ rflight[r].route = "get"
  /\ rresp' = GetResponse(rflight[r], profileFallback[rflight[r].email])
  /\ rflight' = [rflight EXCEPT ![r] = FreeReq]
  /\ UNCHANGED << users, profileFallback, acked, rarrived >>

\* app.post('/api/profile/update') up to `await prisma.user.update(...)`
AppProfileUpdate(r) ==
  /\ rflight[r].pc = "free"
  /\ rarrived < MaxProfileRequests
  /\ rarrived' = rarrived + 1
  /\ \E email \in ProfileEmails \cup {Undefined}, u \in ProfileUpdates :
       IF email = Undefined
       THEN /\ rresp' = RResp("appUpdate", email, 400, Absent)
            /\ UNCHANGED rflight
       ELSE /\ rflight' = WithUpdateAt(r, [FreeReq EXCEPT !.pc = "db", !.route = "appUpdate",
                                            !.email = email, !.u = u,
                                            !.clean = ~UpdateInFlight(r, email)])
            /\ UNCHANGED rresp
  /\ UNCHANGED << users, profileFallback, acked >>

\* the database executes the update of request r on the row of the email
AppProfileWrite(r) ==
  /\ rflight[r].pc = "db" /\ rflight[r].route = "appUpdate"
  /\ users[rflight[r].email].exists
  /\ users' = [users EXCEPT ![rflight[r].email] = ApplyUpdates(@, rflight[r].u)]
  /\ rflight' = [rflight EXCEPT ![r].pc = "settled", ![r].result = users'[rflight[r].email]]
  /\ UNCHANGED << profileFallback, acked, rresp, rarrived >>

\* the update resolves: res.json(updatedUser)
AppProfileSettles(r) ==
  /\ rflight[r].pc = "settled" /\ rflight[r].route = "appUpdate"
  /\ rresp' = RResp("appUpdate", rflight[r].email, 200, rflight[r].result)
  /\ acked' = [acked EXCEPT ![rflight[r].email] = Acknowledged(@, rflight[r])]
  /\ rflight' = [rflight EXCEPT ![r] = FreeReq]
  /\ UNCHANGED << users, profileFallback, rarrived >>

\* the update rejects (no row for the email, or no database): 500
AppProfileFails(r) ==
  /\ rflight[r].pc = "db" /\ rflight[r].route = "appUpdate"
  /\ rresp' = RResp("appUpdate", rflight[r].email, 500, Absent)
  /\ rflight' = [rflight EXCEPT ![r] = FreeReq]
  /\ UNCHANGED << users, profileFallback, acked, rarrived >>

\* the database executes the prisma.user.create of POST /api/register
\* ({ email, password_hash }) for an email that has no row
RegisterCreate ==
  \E email \in ProfileEmails :
    /\ ~users[email].exists
    /\ users' = [users EXCEPT ![email] = DefaultProfile]
    /\ UNCHANGED << profileFallback, acked, rresp, rflight, rarrived >>

\* the database executes the prisma.user.create of POST /save for a
\* user_email that has no row: name is player_name || 'Unknown Player'
SaveCreate ==
  \E email \in ProfileEmails, player_name \in {JsUndefined, Str("Ann")} :
    /\ ~users[email].exists
    /\ users' = [users EXCEPT ![email] =
                   [DefaultProfile EXCEPT !.name = IF Truthy(player_name) THEN player_name
                                                   ELSE Str("Unknown Player")]]
    /\ UNCHANGED << profileFallback, acked, rresp, rflight, rarrived >>

\* ------------------------------------------------- UserProfileProvider
SessionEmails == {"a@example.com", "b@example.com"}
\* profile: null, or the profile the backend returned for an email
NullProfile ==
  [email |-> Undefined, name |-> JsNull, position |-> JsNull,
   graduation_year |-> JsNull, state |-> JsNull]
\* new Date().getFullYear()
ThisYear == 2026
\* the bodies /api/profile/get and /api/profile/update answer with for an
\* email: a new user, all but the position, a complete profile, and
\* positions that are whatever string the users table holds
ProfileBodies(e) ==
  { [NullProfile EXCEPT !.email = e],
    [NullProfile EXCEPT !.email = e, !.name = Str("Ann"),
                        !.graduation_year = Num(ThisYear + 1), !.state = Str("TX")],
    [NullProfile EXCEPT !.email = e, !.name = Str("Ann"), !.position = Str("QB"),
                        !.graduation_year = Num(ThisYear + 1), !.state = Str("TX")],
    [NullProfile EXCEPT !.email = e, !.name = Str("Ann"),
                        !.position = Str("constructor")],
    [NullProfile EXCEPT !.email = e, !.name = Str("Ann"),
                        !.position = Str("toString")],
    [NullProfile EXCEPT !.email = e, !.name = Str("Ann"),
                        !.position = Str("__proto__")] }
\* a body response.json() rejects
NoBody == [NullProfile EXCEPT !.email = "<no json>"]
NoError == ""

\* the provider is mounted and next-auth has not resolved the session
CIdle ==
  /\ sessionStatus = "loading" /\ session = Undefined
  /\ profile = NullProfile /\ loading = FALSE /\ error = NoError
  /\ inflight = {} /\ started = 0

\* fetchProfile up to `await fetch(...)`: nothing when there is no
\* authenticated session with an email
FetchStarts(st, em) ==
  IF st # "authenticated" \/ em = Undefined
  THEN /\ UNCHANGED << loading, error, inflight, started >>
  ELSE /\ loading' = TRUE
       /\ error' = NoError
       /\ inflight' = inflight \cup
            {[id |-> started + 1, kind |-> "get", email |-> em, pc |-> "fetch"]}
       /\ started' = started + 1

\* the session changes to status st of the account em (sign-in, sign-out,
\* another account) and the effect on [status, session?.user?.email,
\* fetchProfile] runs: fetchProfile for an authenticated session, the
\* profile cleared for an unauthenticated one, nothing while it loads
SessionChange(st, em) ==
  LET e == IF st = "authenticated" THEN em ELSE Undefined
  IN /\ << st, e >> # << sessionStatus, session >>
     /\ st = "authenticated" => started < MaxFetches
     /\ sessionStatus' = st
     /\ session' = e
     /\ IF st = "authenticated"
        THEN FetchStarts(st, e) /\ UNCHANGED profile
        ELSE IF st = "unauthenticated"
        THEN /\ profile' = NullProfile
             /\ error' = NoError
             /\ loading' = FALSE
             /\ UNCHANGED << inflight, started >>
        ELSE UNCHANGED << profile, loading, error, inflight, started >>

\* refetch(): a consumer calls fetchProfile
Refetch ==
  /\ started < MaxFetches
  /\ sessionStatus = "authenticated" /\ session # Undefined
  /\ FetchStarts(sessionStatus, session)
  /\ UNCHANGED << sessionStatus, session, profile >>

\* updateProfile(updates) up to `await fetch('/api/profile/update')`
UpdateStarts ==
  /\ started < MaxFetches
  /\ session # Undefined
  /\ inflight' = inflight \cup
       {[id |-> started + 1, kind |-> "update", email |-> session, pc |-> "fetch"]}
  /\ started' = started + 1
  /\ UNCHANGED << sessionStatus, session, profile, loading, error >>

\* `await fetch(...)` of fetchProfile or updateProfile settles: an ok
\* response goes on to `await response.json()`; a 404 ends fetchProfile
\* without an error and fails updateProfile; any other status and a rejected
\* fetch set the error.  The finally block of fetchProfile ends the loading.
FetchResponds ==
  \E f \in inflight, outcome \in {"ok", "notFound", "failed"} :
    /\ f.pc = "fetch"
    /\ IF outcome = "ok"
       THEN /\ inflight' = (inflight \ {f}) \cup {[f EXCEPT !.pc = "json"]}
            /\ UNCHANGED << error, loading >>
       ELSE /\ inflight' = inflight \ {f}
            /\ error' = IF outcome = "failed" \/ f.kind = "update"
                        THEN "HTTP error" ELSE error
            /\ loading' = IF f.kind = "get" THEN FALSE ELSE loading
    /\ UNCHANGED << sessionStatus, session, profile, started >>

\* `await response.json()` settles and the rest of fetchProfile or
\* updateProfile runs: setProfile with the body, or the error when the body
\* is no JSON
FetchSettles(f, body) ==
  /\ f \in inflight /\ f.pc = "json"
  /\ inflight' = inflight \ {f}
  /\ profile' = IF body = NoBody THEN profile ELSE body
  /\ error' = IF body = NoBody THEN "HTTP error" ELSE error
  /\ loading' = IF f.kind = "get" THEN FALSE ELSE loading
  /\ UNCHANGED << sessionStatus, session, started >>

\* ------------------------------------------------------- the wizard page
Q(k, c) == [key |-> k, category |-> c]
SettingsQuestions ==
  << Q("Player_Name", "settings"), Q("position", "settings"),
     Q("grad_year", "settings"), Q("state", "settings") >>
CombineQuestions ==
  << Q("forty_yard_dash", "combine"), Q("vertical_jump", "combine"),
     Q("shuttle", "combine"), Q("height_inches", "combine"),
     Q("weight_lbs", "combine"), Q("review", "review") >>
StatsKeys ==
  [p \in {"QB", "RB", "WR"} |->
     CASE p = "QB" -> << "senior_yds", "senior_cmp", "senior_att", "senior_int",
                         "senior_td_passes", "junior_yds" >>
       [] p = "RB" -> << "senior_rush_yds", "senior_touches", "senior_avg",
                         "senior_rush_rec", "senior_rush_rec_yds", "senior_rush_td",
                         "junior_ypg" >>
       [] OTHER -> << "senior_rec", "senior_rec_yds", "senior_rec_td", "junior_rec",
                      "junior_rec_yds", "junior_rec_td" >>]
\* positionSteps.QB, .RB and .WR: settings, stats, combine, review;
\* positionSteps.DEFAULT: no step
positionSteps ==
  [p \in {"QB", "RB", "WR", "DEFAULT"} |->
     IF p = "DEFAULT" THEN << >>
     ELSE SettingsQuestions
            \o [i \in 1..Len(StatsKeys[p]) |-> Q(StatsKeys[p][i], "stats")]
            \o CombineQuestions]
\* initialSteps.map(step => ({ ...step, category: 'settings' }))
initialSteps == << Q("Player_Name", "settings"), Q("position", "settings") >>
\* the values buildSteps returns and currentSteps holds: an array of steps
\* with its elements as items; Object.prototype and its functions, which have
\* no element; a string with its characters as items
Arr(list) == [type |-> "array", member |-> "", items |-> list]
\* positionSteps[name] for a name that is no key of positionSteps but a
\* member of Object.prototype: Object.prototype itself for __proto__, a
\* function for every other name
Inherited(name) ==
  [type |-> IF name = "__proto__" THEN "object" ELSE "function",
   member |-> name, items |-> << >>]
\* positionSteps[position] || positionSteps.DEFAULT: every list and every
\* inherited member is truthy
buildSteps(position) ==
  IF position \in DOMAIN positionSteps THEN Arr(positionSteps[position])
  ELSE IF In(position, positionSteps) THEN Inherited(position)
  ELSE Arr(positionSteps["DEFAULT"])
\* the inherited members that are functions of at least one parameter: as
\* positionStepsList they have a length of 1 or 2 and no element 0, so that
\* `step.category` in the loop of the profile effect throws
ThrowingMembers ==
  {"constructor", "hasOwnProperty", "isPrototypeOf", "propertyIsEnumerable",
   "__defineGetter__", "__defineSetter__", "__lookupGetter__", "__lookupSetter__"}
\* Object.prototype.toString called without a receiver gives the string
\* "[object Undefined]": 18 characters, none of which has a key or a category
ObjectToString ==
  [type |-> "string", member |-> "",
   items |-> [i \in 1..18 |-> Q(Undefined, Undefined)]]
\* the state after an updater has thrown
Thrown == [type |-> "thrown", member |-> "", items |-> << >>]
\* setCurrentSteps(value) on the state prev: React calls a function as an
\* updater, value(prev) without a receiver.  Object(prev) is prev, toString
\* gives its string, and every other function of Object.prototype throws a
\* TypeError for the missing receiver
SetState(prev, value) ==
  IF value.type # "function" THEN value
  ELSE IF value.member = "constructor" THEN prev
  ELSE IF value.member = "toString" THEN ObjectToString
  ELSE Thrown

\* the four settings values of the form (useForm without default values);
\* the position is Undefined or the string chosen
EmptyForm ==
  [Player_Name |-> JsUndefined, position |-> Undefined,
   grad_year |-> JsUndefined, state |-> JsUndefined]
\* whether currentSteps[step] is an element, with the 0-based step of the page
HasStep(steps, st) == st >= 0 /\ st < Len(steps.items)
\* currentSteps[step]; its key and category are Undefined when there is no
\* such element
StepAt(steps, st) ==
  IF HasStep(steps, st) THEN steps.items[st + 1] ELSE Q(Undefined, Undefined)

\* the profile's value for a form key
ProfileValue(pr, k) ==
  CASE k = "Player_Name" -> pr.name
    [] k = "position" -> pr.position
    [] k = "grad_year" -> pr.graduation_year
    [] OTHER -> pr.state
\* profileData of the profile effect: the form keys the profile has a truthy
\* value for
profileData(pr) ==
  { k \in {"Player_Name", "position", "grad_year", "state"} : Truthy(ProfileValue(pr, k)) }

\* startStep: Math.max(startStep, 1 | 2 | 3 | 4) for each value the profile has
startStep(pr) ==
  IF "state" \in profileData(pr) THEN 4
  ELSE IF "grad_year" \in profileData(pr) THEN 3
  ELSE IF "position" \in profileData(pr) THEN 2
  ELSE IF "Player_Name" \in profileData(pr) THEN 1
  ELSE 0

\* the loop of the effect over positionStepsList: the index of the first
\* stats question, or of the first settings question without profile data if
\* that comes earlier; 0 when the loop finds neither
nextStepOf(list, pr) ==
  LET stops == { i \in 0..(Len(list) - 1) :
                   \/ list[i + 1].category = "stats"
                   \/ (list[i + 1].category = "settings"
                         /\ list[i + 1].key \notin profileData(pr)) }
  IN IF stops = {} THEN 0 ELSE CHOOSE i \in stops : \A j \in stops : i <= j

\* what a freshly mounted WizardPage holds in useState and useForm, and what
\* the page on screen holds
FreshWizard ==
  [step |-> 0, selectedPosition |-> Undefined, currentSteps |-> Arr(initialSteps),
   formValues |-> EmptyForm]
WizardState ==
  [step |-> step, selectedPosition |-> selectedPosition,
   currentSteps |-> currentSteps, formValues |-> formValues]
SetWizard(w) ==
  /\ step' = w.step /\ selectedPosition' = w.selectedPosition
  /\ currentSteps' = w.currentSteps /\ formValues' = w.formValues
\* the wizard after an effect or an updater has thrown: the page is replaced
Crashed == [crashed |-> TRUE]
IsCrashed(w) == "crashed" \in DOMAIN w

\* the position effect on the wizard state w: with a selected position and
\* step 1 the steps become what buildSteps gives for the position and the
\* step 2.  It runs after a render in which selectedPosition or step changed.
AfterPositionEffect(w, changed) ==
  IF changed /\ w.selectedPosition # Undefined /\ w.step = 1
  THEN LET newSteps == SetState(w.currentSteps, buildSteps(w.selectedPosition))
       IN IF newSteps = Thrown THEN Crashed
          ELSE [w EXCEPT !.step = 2, !.currentSteps = newSteps]
  ELSE w

\* the state after a handler has set selectedPosition to sel and step to st
Rendered(sel, st) ==
  AfterPositionEffect([WizardState EXCEPT !.selectedPosition = sel, !.step = st],
                      << sel, st >> # << selectedPosition, step >>)

\* whether the loop of the profile effect throws for the profile's position
Throws(pr) ==
  /\ Truthy(pr.position)
  /\ pr.position.v \notin DOMAIN positionSteps
  /\ pr.position.v \in ThrowingMembers

\* the body of the profile effect for a profile pr on the wizard state w,
\* followed by the position effect of the render it causes: form.setValue for
\* every truthy profile value, and the step and steps of the profile's
\* position.  The loop runs over what buildSteps gives (no iteration for a
\* value without elements); the page crashes when the loop throws or when
\* the value is a function that throws as an updater.
AfterProfileEffect(pr, w) ==
  LET fv == [k \in DOMAIN w.formValues |->
               IF k \notin profileData(pr) THEN w.formValues[k]
               ELSE IF k = "position" THEN pr.position.v
               ELSE ProfileValue(pr, k)]
      has == Truthy(pr.position)
      sel == IF has THEN pr.position.v ELSE w.selectedPosition
      positionStepsList == buildSteps(sel)
      list == IF has THEN SetState(w.currentSteps, positionStepsList) ELSE w.currentSteps
      st == IF has THEN nextStepOf(positionStepsList.items, pr) ELSE startStep(pr)
  IN IF Throws(pr) \/ list = Thrown THEN Crashed
     ELSE AfterPositionEffect(
            [step |-> st, selectedPosition |-> sel, currentSteps |-> list,
             formValues |-> fv],
            << sel, st >> # << w.selectedPosition, w.step >>)

NoEval == [x \in {} |-> 0]
\* what /api/evaluate answers with
EvalResults == { [score |-> Num(693000), predicted_tier |-> Str("FCS")],
                 [score |-> Num(735000), predicted_tier |-> Str("Power5")] }
\* a stringify that keeps nothing
StringifyNothing(obj) == NoEval
\* JSON.stringify of an object: a key whose value is undefined is left out
Stringify(obj) == [k \in { x \in DOMAIN obj : obj[x].t # "undefined" } |-> obj[k]]
\* JSON.parse of such a string
Parse(str) == str
\* sessionStorage.getItem of a key that was never set
NoItem == [missing |-> TRUE]

\* neither page is open
ZIdle ==
  /\ page = "none" /\ ready = FALSE /\ step = 0 /\ selectedPosition = Undefined
  /\ currentSteps = Arr(initialSteps) /\ formValues = EmptyForm
  /\ isSubmitting = FALSE /\ evalResult = FALSE /\ submits = {}
  /\ storedResult = NoItem /\ evalData = NoEval /\ answered = NoEval
  /\ dashLoading = TRUE /\ dashError = FALSE /\ timers = 0
  /\ lastAction = << "none", 0 >>

\* the browser has opened /wizard or /dashboard in a new tab: the page is
\* mounted with its initial state and its effects have not run
ZInit ==
  /\ page \in {"wizard", "dashboard"}
  /\ ready = FALSE /\ step = 0 /\ selectedPosition = Undefined
  /\ currentSteps = Arr(initialSteps) /\ formValues = EmptyForm
  /\ isSubmitting = FALSE /\ evalResult = FALSE /\ submits = {}
  /\ storedResult = NoItem /\ evalData = NoEval /\ answered = NoEval
  /\ dashLoading = TRUE /\ dashError = FALSE /\ timers = 0
  /\ lastAction = << "none", 0 >>

\* router.push(to), or the error boundary replacing the page (to = "error"):
\* nothing when the page is on screen already; otherwise the page on screen
\* is unmounted and a fresh page is mounted, its effects still to run.  The
\* handleSubmit calls in flight (then) go on without their page.
Navigate(to, then) ==
  IF page = to
  THEN /\ submits' = then
       /\ UNCHANGED << page, ready, step, selectedPosition, currentSteps, formValues,
                       isSubmitting, evalResult, evalData, dashLoading, dashError >>
  ELSE /\ page' = to /\ ready' = FALSE
       /\ SetWizard(FreshWizard)
       /\ isSubmitting' = FALSE /\ evalResult' = FALSE
       /\ evalData' = NoEval /\ dashLoading' = TRUE /\ dashError' = FALSE
       /\ submits' = { [c EXCEPT !.live = FALSE] : c \in then }

\* the wizard's effect on [profile, profileLoading, needsProfileSetup, form]
\* with the profile pr and profileLoading ld: nothing without a profile or
\* while it loads; the error boundary when the effect or an updater throws
ProfileEffect(pr, ld) ==
  /\ IF pr = NullProfile \/ ld
     THEN /\ ready' = TRUE
          /\ lastAction' = << "effect", 0 >>
          /\ UNCHANGED << page, step, selectedPosition, currentSteps, formValues,
                          isSubmitting, evalResult, evalData, dashLoading, dashError,
                          submits >>
     ELSE IF IsCrashed(AfterProfileEffect(pr, WizardState))
     THEN /\ Navigate("error", submits)
          /\ lastAction' = << "crash", 0 >>
     ELSE /\ SetWizard(AfterProfileEffect(pr, WizardState))
          /\ ready' = TRUE
          /\ lastAction' = << "init", 0 >>
          /\ UNCHANGED << page, isSubmitting, evalResult, evalData, dashLoading,
                          dashError, submits >>
  /\ UNCHANGED << storedResult, answered, timers >>

\* the effects of a freshly mounted WizardPage
ProfileInit ==
  /\ page = "wizard" /\ ~ready
  /\ ProfileEffect(profile, loading)

\* whether the wizard (not the loading screen, not the fallback Dashboard) is
\* on screen
WizardShown == page = "wizard" /\ ready /\ ~loading /\ ~evalResult

\* what the user can put into the field of a question: a name or nothing in
\* the name input, two of the options of the position select and one of the
\* state select, a past year, a coming year or nothing in the year input
InputsFor(key) ==
  CASE key = "Player_Name" -> {Str("Ann"), Str("")}
    [] key = "position" -> {"QB", "WR"}
    [] key = "grad_year" -> {Num(ThisYear - 1), Num(ThisYear + 1), Str("")}
    [] key = "state" -> {Str("TX")}
    [] OTHER -> {}

\* field.onChange of the Controller of the current question
FieldChange ==
  /\ WizardShown
  /\ LET key == StepAt(currentSteps, step).key
     IN /\ key \in DOMAIN formValues
        /\ \E input \in InputsFor(key) :
             /\ input # formValues[key]
             /\ formValues' = [formValues EXCEPT ![key] = input]
  /\ lastAction' = << "user", 0 >>
  /\ UNCHANGED << page, ready, step, selectedPosition, currentSteps, isSubmitting,
                  evalResult, storedResult, evalData, answered, dashLoading,
                  dashError, submits, timers >>

\* the rule `required`: a value that is not undefined, null or ""
Filled(x) == x.t \notin {"undefined", "null"} /\ x # Str("")
\* form.trigger(fieldName) with the rules of the field's Controller
Valid(key, fv) ==
  CASE key = "position" -> fv.position # Undefined
    [] key = "grad_year" -> Filled(fv.grad_year) /\ fv.grad_year.v >= ThisYear
    [] key \in {"Player_Name", "state"} -> Filled(fv[key])
    [] OTHER -> TRUE

\* the page after a handler has left the wizard state w: the error boundary
\* when the position effect threw
Commit(w) ==
  IF IsCrashed(w) THEN Navigate("error", submits)
  ELSE /\ SetWizard(w)
       /\ UNCHANGED << page, ready, isSubmitting, evalResult, evalData, dashLoading,
                       dashError, submits >>

\* handleNext, by the Next button (there unless the step is the review) or
\* Enter in the field: nothing for a missing step or a field that fails its
\* rules
handleNext ==
  /\ WizardShown
  /\ HasStep(currentSteps, step)
  /\ StepAt(currentSteps, step).key # "review"
  /\ LET key == StepAt(currentSteps, step).key
         r == IF key = "position"
              THEN Rendered(formValues.position, step)
              ELSE Rendered(selectedPosition, step + 1)
     IN /\ Valid(key, formValues)
        /\ Commit(r)
  /\ lastAction' = << "user", 0 >>
  /\ UNCHANGED << storedResult, answered, timers >>

\* handleBack: the Back button is there for step > 0
handleBack ==
  /\ WizardShown /\ step > 0
  /\ Commit(Rendered(selectedPosition, Max2(0, step - 1)))
  /\ lastAction' = << "user", 0 >>
  /\ UNCHANGED << storedResult, answered, timers >>

\* a click on pill i of ProgressPills (total = currentSteps.length, onClick =
\* setStep), or on Edit of row i of the ReviewCard (onEdit = setStep)
PillClick ==
  /\ WizardShown
  /\ \E i \in 0..(Len(currentSteps.items) - 1) :
       /\ Commit(Rendered(selectedPosition, i))
       /\ lastAction' = << "user", 0 >>
  /\ UNCHANGED << storedResult, answered, timers >>

\* handleSubmit up to `await fetch('/api/evaluate')`, by the Submit button of
\* the ReviewCard: the call keeps formData = form.getValues() and the
\* selectedPosition of the render it was created in
handleSubmit ==
  /\ WizardShown /\ ~isSubmitting
  /\ StepAt(currentSteps, step).key = "review"
  /\ isSubmitting' = TRUE
  /\ submits' = submits \cup
       {[pc |-> "fetching", live |-> TRUE, position |-> selectedPosition,
         Player_Name |-> formValues.Player_Name]}
  /\ lastAction' = << "user", 0 >>
  /\ UNCHANGED << page, ready, step, selectedPosition, currentSteps, formValues,
                  evalResult, storedResult, evalData, answered, dashLoading,
                  dashError, timers >>

\* the catch and finally blocks of the handleSubmit call c: the mock result
\* is shown in place, if the page of the call is still mounted
SubmitFails(c) ==
  /\ submits' = submits \ {c}
  /\ IF c.live
     THEN evalResult' = TRUE /\ isSubmitting' = FALSE
     ELSE UNCHANGED << evalResult, isSubmitting >>
  /\ lastAction' = << "failed", 0 >>
  /\ UNCHANGED << page, ready, step, selectedPosition, currentSteps, formValues,
                  storedResult, evalData, answered, dashLoading, dashError, timers >>

\* `await fetch('/api/evaluate')` settles: an ok response goes on to
\* `await response.json()`, anything else to the catch block
SubmitResponds ==
  \E c \in submits, ok \in BOOLEAN :
    /\ c.pc = "fetching"
    /\ IF ok
       THEN /\ submits' = (submits \ {c}) \cup {[c EXCEPT !.pc = "json"]}
            /\ lastAction' = << "user", 0 >>
            /\ UNCHANGED << page, ready, step, selectedPosition, currentSteps,
                            formValues, isSubmitting, evalResult, storedResult,
                            evalData, answered, dashLoading, dashError, timers >>
       ELSE SubmitFails(c)

\* `await response.json()` settles: the result is stored in sessionStorage
\* with the position and formData.Player_Name of the call and the router goes
\* to /dashboard; a body that is no JSON goes to the catch block
SubmitSettles ==
  \E c \in submits, ok \in BOOLEAN, result \in EvalResults :
    /\ c.pc = "json"
    /\ IF ok
       THEN /\ answered' = result
            /\ storedResult' =
                 Stringify([k \in DOMAIN result \cup {"position", "playerName"} |->
                              CASE k = "position" ->
                                     IF c.position = Undefined THEN JsNull
                                     ELSE Str(c.position)
                                [] k = "playerName" -> c.Player_Name
                                [] OTHER -> result[k]])
            /\ Navigate("dashboard", submits \ {c})
            /\ lastAction' = << "settled", 0 >>
            /\ UNCHANGED timers
       ELSE SubmitFails(c)

\* the effect of DashboardPage on [router, status, profileLoading] with the
\* status st and profileLoading ld: to /auth/login without a session; nothing
\* while the session or the profile loads; otherwise the stored result is
\* parsed and kept, and without one the page shows an error and starts the
\* 2 s timer of its way back to the wizard.  With `again` the effect runs
\* once more right after, with profileLoading true, a run that only waits.
DashboardRuns(st, ld, again) ==
  /\ IF st = "unauthenticated"
     THEN /\ Navigate("login", submits)
          /\ lastAction' = << "dashboard", 0 >>
          /\ UNCHANGED timers
     ELSE /\ ready' = TRUE
          /\ UNCHANGED << page, step, selectedPosition, currentSteps, formValues,
                          isSubmitting, evalResult, submits >>
          /\ IF st = "loading" \/ ld
             THEN /\ lastAction' = << "waiting", 0 >>
                  /\ UNCHANGED << evalData, dashLoading, dashError, timers >>
             ELSE /\ lastAction' = << IF again THEN "waiting" ELSE "dashboard", 0 >>
                  /\ dashLoading' = FALSE
                  /\ IF storedResult = NoItem
                     THEN /\ dashError' = TRUE
                          /\ timers' = timers + 1
                          /\ UNCHANGED evalData
                     ELSE /\ evalData' = Parse(storedResult)
                          /\ UNCHANGED << dashError, timers >>
  /\ UNCHANGED << storedResult, answered >>

\* the effect of a freshly mounted DashboardPage
DashboardEffect ==
  /\ page = "dashboard" /\ ~ready
  /\ DashboardRuns(sessionStatus, loading, FALSE)

\* setTimeout(() => router.push('/wizard'), 2000) of the dashboard's effect
\* comes due, whatever page is on screen by then
RedirectTimer ==
  /\ timers > 0
  /\ timers' = timers - 1
  /\ Navigate("wizard", submits)
  /\ lastAction' = << "timer", 0 >>
  /\ UNCHANGED << storedResult, answered >>

\* what DashboardPage renders
DashboardRender ==
  IF sessionStatus = "loading" \/ loading THEN "spinner"
  ELSE IF sessionStatus = "unauthenticated" THEN "nothing"
  ELSE IF dashLoading THEN "spinner"
  ELSE IF dashError THEN "error"
  ELSE IF evalData = NoEval THEN "no data"
  ELSE "result"

\* the pages' effects after the provider has changed its state: the wizard's
\* profile effect when the profile was set or profileLoading changed, the
\* dashboard's when the status or profileLoading changed.  A new status is
\* rendered before the provider's own effect has run: the dashboard's effect
\* runs with the new status and the profileLoading of before, and again when
\* the provider's effect has changed profileLoading and the page is still
\* there (the provider starts a fetch only for an authenticated session,
\* where that second run waits).
PagesReact(profileSet) ==
  IF page = "wizard" /\ ready /\ (profileSet \/ loading' # loading)
  THEN ProfileEffect(profile', loading')
  ELSE IF page = "dashboard" /\ ready /\ sessionStatus' # sessionStatus
  THEN DashboardRuns(sessionStatus', loading, loading' # loading)
  ELSE IF page = "dashboard" /\ ready /\ loading' # loading
  THEN DashboardRuns(sessionStatus', loading', FALSE)
  ELSE /\ lastAction' = << "session", 0 >>
       /\ UNCHANGED << page, ready, step, selectedPosition, currentSteps, formValues,
                       isSubmitting, evalResult, storedResult, evalData, answered,
                       dashLoading, dashError, submits, timers >>

\* ------------------------------------------------------ specifications
Init == WInit /\ PIdle /\ SIdle /\ IIdle /\ EIdle /\ TIdle /\ RIdle /\ CIdle /\ ZIdle

Next ==
  \/ WhatIfReceive /\ UNCHANGED << pvars, svars, ivars, evars, tvars, rvars, cvars, zvars >>
  \/ WhatIfSchema /\ UNCHANGED << pvars, svars, ivars, evars, tvars, rvars, cvars, zvars >>
  \/ WhatIfProbe /\ UNCHANGED << pvars, svars, ivars, evars, tvars, rvars, cvars, zvars >>

Spec == Init /\ [][Next]_vars

\* the what-if handler under the assumption that every awaited call settles,
\* so that the handler is resumed: fetchSchemaOnce catches the failures of
\* its fetch, and invokeServing resolves or rejects (its timer bounds only the
\* wait for the response headers; that the body arrives is assumed)
SpecSettling == Init /\ [][Next]_vars /\ WF_vars(Next)

InitPredict == WIdle /\ PInit /\ SIdle /\ IIdle /\ EIdle /\ TIdle /\ RIdle /\ CIdle /\ ZIdle

NextPredict ==
  \/ PredictReceive /\ UNCHANGED << wvars, svars, ivars, evars, tvars, rvars, cvars, zvars >>
  \/ PredictSchema /\ UNCHANGED << wvars, svars, ivars, evars, tvars, rvars, cvars, zvars >>
  \/ PredictInvoke /\ UNCHANGED << wvars, svars, ivars, evars, tvars, rvars, cvars, zvars >>

SpecPredict == InitPredict /\ [][NextPredict]_vars

InitSchema == WIdle /\ PIdle /\ SInit /\ IIdle /\ EIdle /\ TIdle /\ RIdle /\ CIdle /\ ZIdle

NextSchema ==
  \/ \E c \in Callers, p \in SchemaPositions : SchemaCall(c, p) /\ UNCHANGED << wvars, pvars, ivars, evars, tvars, rvars, cvars, zvars >>
  \/ \E c \in Callers, ok \in BOOLEAN :
        SchemaFetchHeaders(c, ok) /\ UNCHANGED << wvars, pvars, ivars, evars, tvars, rvars, cvars, zvars >>
  \/ \E c \in Callers, cols \in {NullCols, EndpointCols} :
        SchemaFetchOk(c, cols) /\ UNCHANGED << wvars, pvars, ivars, evars, tvars, rvars, cvars, zvars >>
  \/ \E c \in Callers : SchemaFetchFail(c) /\ UNCHANGED << wvars, pvars, ivars, evars, tvars, rvars, cvars, zvars >>
  \/ \E c \in Callers : SchemaFinish(c) /\ UNCHANGED << wvars, pvars, ivars, evars, tvars, rvars, cvars, zvars >>
  \/ Tick /\ UNCHANGED << wvars, pvars, ivars, evars, tvars, rvars, cvars, zvars >>

SpecSchema == InitSchema /\ [][NextSchema]_vars

\* both routes, served by models that answer every class id, with every tier
\* label as the requested target
AllLabels == {"D3/NAIA", "D2", "FCS", "Power 5"}
TierBases == { b \in Bases : "undefined" \in DOMAIN b /\ "Forty_Yard_Dash" \notin DOMAIN b }
TierCandidates == { c \in CandidateLists : c.keys \in {{}, {"Forty_Yard_Dash", "Vertical_Jump"}} }
TierBodies == { b \in PredictBodies : DOMAIN b \subseteq {"Player_Name", "forty_yard_dash"} }

WInitTier ==
  /\ wpc = "idle"
  /\ wreq \in [pos : {"QB"}, base : TierBases, targetLabel : AllLabels,
               threshold : {50}, candidates : TierCandidates]
  /\ clf \in TierClassifiers
  /\ schema = NoSchema /\ sliders = << >> /\ si = 0 /\ lo = 0 /\ hi = 0
  /\ best = NoBest /\ it = 0 /\ tries = << >> /\ wresp = NoResp
  /\ nq = [k \in {} |-> 0] /\ okq = {}

PInitTier ==
  /\ ppc = "idle"
  /\ preq \in [pos : { << "q", "b" >>, << "R", "B" >> }, body : TierBodies]
  /\ pclf \in TierClassifiers
  /\ pschema = NoSchema /\ pout = "none" /\ psent = NoRecord /\ presp = NoPResp

InitTier ==
  /\ \/ WInitTier /\ PIdle
     \/ WIdle /\ PInitTier
  /\ SIdle /\ IIdle /\ EIdle /\ TIdle /\ RIdle /\ CIdle /\ ZIdle

NextTier ==
  \/ WhatIfReceive /\ UNCHANGED << pvars, svars, ivars, evars, tvars, rvars, cvars, zvars >>
  \/ WhatIfSchema /\ UNCHANGED << pvars, svars, ivars, evars, tvars, rvars, cvars, zvars >>
  \/ WhatIfProbe /\ UNCHANGED << pvars, svars, ivars, evars, tvars, rvars, cvars, zvars >>
  \/ PredictReceive /\ UNCHANGED << wvars, svars, ivars, evars, tvars, rvars, cvars, zvars >>
  \/ PredictSchema /\ UNCHANGED << wvars, svars, ivars, evars, tvars, rvars, cvars, zvars >>
  \/ PredictInvoke /\ UNCHANGED << wvars, svars, ivars, evars, tvars, rvars, cvars, zvars >>

SpecTier == InitTier /\ [][NextTier]_vars

InitServing == WIdle /\ PIdle /\ SIdle /\ IInit /\ EIdle /\ TIdle /\ RIdle /\ CIdle /\ ZIdle

NextServing ==
  \/ InvokeStart /\ UNCHANGED << wvars, pvars, svars, evars, tvars, rvars, cvars, zvars >>
  \/ InvokeHeaders /\ UNCHANGED << wvars, pvars, svars, evars, tvars, rvars, cvars, zvars >>
  \/ InvokeAbort /\ UNCHANGED << wvars, pvars, svars, evars, tvars, rvars, cvars, zvars >>
  \/ InvokeFetchError /\ UNCHANGED << wvars, pvars, svars, evars, tvars, rvars, cvars, zvars >>
  \/ InvokeBody /\ UNCHANGED << wvars, pvars, svars, evars, tvars, rvars, cvars, zvars >>
  \/ InvokeBodyError /\ UNCHANGED << wvars, pvars, svars, evars, tvars, rvars, cvars, zvars >>
  \/ InvokeTick /\ UNCHANGED << wvars, pvars, svars, evars, tvars, rvars, cvars, zvars >>

SpecServing == InitServing /\ [][NextServing]_vars

InitEvaluate == WIdle /\ PIdle /\ SIdle /\ IIdle /\ EInit /\ TIdle /\ RIdle /\ CIdle /\ ZIdle

NextEvaluate ==
  \/ EvaluateReceive /\ UNCHANGED << wvars, pvars, svars, ivars, tvars, rvars, cvars, zvars >>
  \/ EvaluateUser /\ UNCHANGED << wvars, pvars, svars, ivars, tvars, rvars, cvars, zvars >>
  \/ EvaluateHash /\ UNCHANGED << wvars, pvars, svars, ivars, tvars, rvars, cvars, zvars >>
  \/ EvaluateCreateUser /\ UNCHANGED << wvars, pvars, svars, ivars, tvars, rvars, cvars, zvars >>
  \/ EvaluatePipeline /\ UNCHANGED << wvars, pvars, svars, ivars, tvars, rvars, cvars, zvars >>
  \/ EvaluateSave /\ UNCHANGED << wvars, pvars, svars, ivars, tvars, rvars, cvars, zvars >>

SpecEvaluate == InitEvaluate /\ [][NextEvaluate]_vars

InitTrigger == WIdle /\ PIdle /\ SIdle /\ IIdle /\ EIdle /\ TInit /\ RIdle /\ CIdle /\ ZIdle

NextTrigger ==
  \/ TriggerStart /\ UNCHANGED << wvars, pvars, svars, ivars, evars, rvars, cvars, zvars >>
  \/ TriggerCreated /\ UNCHANGED << wvars, pvars, svars, ivars, evars, rvars, cvars, zvars >>
  \/ RunEnds /\ UNCHANGED << wvars, pvars, svars, ivars, evars, rvars, cvars, zvars >>
  \/ TriggerTick /\ UNCHANGED << wvars, pvars, svars, ivars, evars, rvars, cvars, zvars >>

SpecTrigger == InitTrigger /\ [][NextTrigger]_vars

InitProfile == WIdle /\ PIdle /\ SIdle /\ IIdle /\ EIdle /\ TIdle /\ RIdle /\ CIdle /\ ZIdle

NextProfile ==
  \/ \E r \in ProfileReqs : ProfileUpdate(r) /\ UNCHANGED << wvars, pvars, svars, ivars, evars, tvars, cvars, zvars >>
  \/ \E r \in ProfileReqs : ProfileUpsert(r) /\ UNCHANGED << wvars, pvars, svars, ivars, evars, tvars, cvars, zvars >>
  \/ \E r \in ProfileReqs : ProfileUpdateSettles(r) /\ UNCHANGED << wvars, pvars, svars, ivars, evars, tvars, cvars, zvars >>
  \/ \E r \in ProfileReqs : ProfileUpdateFallback(r) /\ UNCHANGED << wvars, pvars, svars, ivars, evars, tvars, cvars, zvars >>
  \/ \E r \in ProfileReqs : ProfileGet(r) /\ UNCHANGED << wvars, pvars, svars, ivars, evars, tvars, cvars, zvars >>
  \/ \E r \in ProfileReqs : ProfileFind(r) /\ UNCHANGED << wvars, pvars, svars, ivars, evars, tvars, cvars, zvars >>
  \/ \E r \in ProfileReqs : ProfileGetSettles(r) /\ UNCHANGED << wvars, pvars, svars, ivars, evars, tvars, cvars, zvars >>
  \/ \E r \in ProfileReqs : ProfileGetFallback(r) /\ UNCHANGED << wvars, pvars, svars, ivars, evars, tvars, cvars, zvars >>
  \/ \E r \in ProfileReqs : AppProfileUpdate(r) /\ UNCHANGED << wvars, pvars, svars, ivars, evars, tvars, cvars, zvars >>
  \/ \E r \in ProfileReqs : AppProfileWrite(r) /\ UNCHANGED << wvars, pvars, svars, ivars, evars, tvars, cvars, zvars >>
  \/ \E r \in ProfileReqs : AppProfileSettles(r) /\ UNCHANGED << wvars, pvars, svars, ivars, evars, tvars, cvars, zvars >>
  \/ \E r \in ProfileReqs : AppProfileFails(r) /\ UNCHANGED << wvars, pvars, svars, ivars, evars, tvars, cvars, zvars >>
  \/ RegisterCreate /\ UNCHANGED << wvars, pvars, svars, ivars, evars, tvars, cvars, zvars >>
  \/ SaveCreate /\ UNCHANGED << wvars, pvars, svars, ivars, evars, tvars, cvars, zvars >>

SpecProfile == InitProfile /\ [][NextProfile]_vars

InitContext == WIdle /\ PIdle /\ SIdle /\ IIdle /\ EIdle /\ TIdle /\ RIdle /\ CIdle /\ ZIdle

NextContext ==
  \/ \E st \in {"authenticated", "unauthenticated"}, em \in SessionEmails :
       SessionChange(st, em) /\ UNCHANGED << wvars, pvars, svars, ivars, evars, tvars, rvars, zvars >>
  \/ Refetch /\ UNCHANGED << wvars, pvars, svars, ivars, evars, tvars, rvars, zvars >>
  \/ UpdateStarts /\ UNCHANGED << wvars, pvars, svars, ivars, evars, tvars, rvars, zvars >>
  \/ FetchResponds /\ UNCHANGED << wvars, pvars, svars, ivars, evars, tvars, rvars, zvars >>
  \/ \E f \in inflight : \E body \in ProfileBodies(f.email) \cup {NoBody} :
       FetchSettles(f, body) /\ UNCHANGED << wvars, pvars, svars, ivars, evars, tvars, rvars, zvars >>

SpecContext == InitContext /\ [][NextContext]_vars

\* the profiles the provider holds when a page opens: none, or a body of the
\* signed-in user without a position or with one of the wizard's (the other
\* bodies arrive by the fetch while the page is open)
WizardUser == "a@example.com"
WizardProfiles ==
  {NullProfile} \cup
  { b \in ProfileBodies(WizardUser) :
      Truthy(b.position) => b.position.v \in DOMAIN positionSteps }

\* the provider as the page finds it: next-auth still resolving the session
\* (a page load), or settled with or without a session; one more fetch can
\* start while the page is open
CInitWizard ==
  /\ profile \in WizardProfiles
  /\ sessionStatus \in {"loading", "authenticated", "unauthenticated"}
  /\ profile # NullProfile => sessionStatus = "authenticated"
  /\ session = IF sessionStatus = "authenticated" THEN WizardUser ELSE Undefined
  /\ loading = FALSE /\ error = NoError /\ inflight = {}
  /\ started = MaxFetches - 1

InitWizard == WIdle /\ PIdle /\ SIdle /\ IIdle /\ EIdle /\ TIdle /\ RIdle /\ CInitWizard /\ ZInit

NextWizard ==
  \/ ProfileInit /\ UNCHANGED << wvars, pvars, svars, ivars, evars, tvars, rvars, cvars >>
  \/ FieldChange /\ UNCHANGED << wvars, pvars, svars, ivars, evars, tvars, rvars, cvars >>
  \/ handleNext /\ UNCHANGED << wvars, pvars, svars, ivars, evars, tvars, rvars, cvars >>
  \/ handleBack /\ UNCHANGED << wvars, pvars, svars, ivars, evars, tvars, rvars, cvars >>
  \/ PillClick /\ UNCHANGED << wvars, pvars, svars, ivars, evars, tvars, rvars, cvars >>
  \/ handleSubmit /\ UNCHANGED << wvars, pvars, svars, ivars, evars, tvars, rvars, cvars >>
  \/ SubmitResponds /\ UNCHANGED << wvars, pvars, svars, ivars, evars, tvars, rvars, cvars >>
  \/ SubmitSettles /\ UNCHANGED << wvars, pvars, svars, ivars, evars, tvars, rvars, cvars >>
  \/ DashboardEffect /\ UNCHANGED << wvars, pvars, svars, ivars, evars, tvars, rvars, cvars >>
  \/ RedirectTimer /\ UNCHANGED << wvars, pvars, svars, ivars, evars, tvars, rvars, cvars >>
  \/ \E st \in {"authenticated", "unauthenticated"} :
       SessionChange(st, WizardUser) /\ PagesReact(profile' # profile)
         /\ UNCHANGED << wvars, pvars, svars, ivars, evars, tvars, rvars >>
  \/ FetchResponds /\ PagesReact(FALSE)
       /\ UNCHANGED << wvars, pvars, svars, ivars, evars, tvars, rvars >>
  \/ \E f \in inflight : \E body \in ProfileBodies(f.email) \cup {NoBody} :
       FetchSettles(f, body) /\ PagesReact(body # NoBody)
         /\ UNCHANGED << wvars, pvars, svars, ivars, evars, tvars, rvars >>

SpecWizard == InitWizard /\ [][NextWizard]_vars


\* ------------------------------------------------- what-if properties
Done200 == wpc = "done" /\ wresp.status = 200
HasRecommendation == Done200 /\ wresp.recommendation # << >>
Recommendation == wresp.recommendation[1]
Tried == wresp.candidates_tried
TriedKeys == { Tried[j].key : j \in 1..Len(Tried) }
\* the record in which the field the response names is set to `to`
Replayed(r) == padToSchema(WithField(wreq.base, r.key, r.to), schema)

\* C1: a returned recommendation verifies on replay: the classifier, queried
\* with the base record in which the recommended field is set to the
\* recommended value, satisfies the success condition.
C1_ReplaySucceeds ==
  HasRecommendation =>
    Success(decodePrediction(ServingReply(clf, Replayed(Recommendation))),
            wreq.targetLabel, wreq.threshold)

\* C2: the recommendation has the smallest abs(delta) among all candidates
\* that produced a result in the request.
C2_SmallestDelta ==
  HasRecommendation =>
    \A j \in 1..Len(Tried) : Abs(Recommendation.delta) <= Abs(Tried[j].delta)

C2_Witness ==
  /\ HasRecommendation
  /\ Len(Tried) >= 3
  /\ \E j \in 1..Len(Tried) : Abs(Tried[j].delta) > Abs(Recommendation.delta)
  /\ Recommendation.key # sliders[1].key

Scenario3 ==
  /\ wreq.pos = "QB"
  /\ "Forty_Yard_Dash" \in DOMAIN wreq.base
  /\ wreq.base["Forty_Yard_Dash"] = Num(49000)
  /\ wreq.targetLabel = "Power 5"
  /\ wreq.threshold = 50
  /\ wreq.candidates = [given |-> TRUE, keys |-> {"Forty_Yard_Dash"}]

\* C3: in scenario 3 (QB, forty 4.9, Power 5, threshold 0.5, candidate forty)
\* a recommendation's `to` lies strictly between 4.4 and 4.9 and its delta is
\* negative.
C3_Scenario3Improves ==
  (Scenario3 /\ HasRecommendation) =>
    /\ 44000 < Recommendation.to
    /\ Recommendation.to < 49000
    /\ Recommendation.delta < 0

\* C4: a candidate none of whose probed midpoints satisfied the success
\* condition yields no result, and the request does not fail for it.
C4_NoSuccessNoResult ==
  (wpc = "done" /\ Len(sliders) > 0 /\ wresp.error \notin ServingFaults) =>
    /\ wresp.status = 200
    /\ \A k \in DOMAIN nq : k \notin okq => k \notin TriedKeys

HasNumericValue(k) == k \in DOMAIN wreq.base /\ wreq.base[k].t = "num"

\* C5: a candidate whose current value in the base record is absent or
\* non-numeric is never queried and has no result; the request completes.
C5_NoAnchorSkipped ==
  \A k \in DOMAIN nq :
    ~HasNumericValue(k) =>
      /\ nq[k] = 0
      /\ (wpc = "done" /\ wresp.error \notin ServingFaults) =>
            (wresp.status = 200 /\ k \notin TriedKeys)

\* C6: when no candidate search of a request succeeds, the response is a
\* success response with a null recommendation.
C6_NoSuccessNullRecommendation ==
  (wpc = "done" /\ Len(sliders) > 0 /\ wresp.error \notin ServingFaults /\ okq = {}) =>
    /\ wresp.status = 200
    /\ wresp.recommendation = << >>

ZeroCandidates ==
  ~\E j \in 1..Len(SlidersOf(wreq.pos)) :
      ~wreq.candidates.given \/ SlidersOf(wreq.pos)[j].key \in wreq.candidates.keys

\* C7 as stated: with zero candidates the solver returns an empty result and
\* not an error.
C7_ZeroCandidatesEmptyResult ==
  (wpc = "done" /\ ZeroCandidates) =>
    (wresp.status = 200 /\ wresp.recommendation = << >>)

\* C7 amended: with zero candidates the request is answered with HTTP 400 and
\* an error message, carries no recommendation, and no classifier query is
\* issued.
C7_ZeroCandidatesRejected ==
  (wpc = "done" /\ ZeroCandidates) =>
    /\ wresp.status = 400
    /\ wresp.error # ""
    /\ wresp.recommendation = << >>
    /\ \A k \in DOMAIN nq : nq[k] = 0

C7_Witness ==
  /\ wpc = "done"
  /\ wreq.pos = "QB"
  /\ wreq.candidates = [given |-> TRUE, keys |-> {"Bench_Press"}]
  /\ schema.known
  /\ wresp.status = 400

\* C8: every candidate whose search was attempted (queries were issued for
\* it) is listed in candidates_tried.
C8_AllAttemptedReported ==
  Done200 => \A k \in DOMAIN nq : nq[k] > 0 => k \in TriedKeys


\* --------------------------------------------------- predict properties
\* C9: when the model-serving call of a predict request fails, times out or
\* returns malformed output, the caller gets an error response and no tier
\* prediction.
C9_ServingFailureSurfaced ==
  (ppc = "done" /\ pout \in ServingFaults \cup {"malformed"}) =>
    /\ presp.status >= 400
    /\ presp.predicted_tier = ""

\* ---------------------------------------------- schema-cache properties
InFlight(p) ==
  { c \in Callers : callers[c].pc \in {"fetching", "json"} /\ callers[c].pos = p }

\* C10: at most one schema fetch per position is in flight at any time.
C10_SingleFlight ==
  \A p \in SchemaPositions : Cardinality(InFlight(p)) <= 1

\* ------------------------------------------------ schema cache lifetime
\* the age of the cached entry of position p, by its own timestamp
EntryAge(p) == now - cache[p].timestamp
\* caller c leaves "idle" in this step: fetchSchemaOnce(callers'[c].pos) ran
\* up to its return or its first await
Called(c) == callers[c].pc = "idle" /\ callers'[c].pc # "idle"

\* C11: the schema cache honours its 10 minute time-to-live: a call that
\* finds an entry younger than the TTL returns the cached column list
\* without starting a fetch, and a call that finds an entry older than the
\* TTL never returns it but starts a fetch again.
C11_TTLHonoured ==
  [][\A c \in Callers : Called(c) =>
       LET p == callers'[c].pos
       IN /\ (cache[p].has /\ EntryAge(p) < 600000) =>
               /\ callers'[c].pc = "returned"
               /\ callers'[c].result = cache[p].columns
          /\ (cache[p].has /\ EntryAge(p) > 600000) =>
               callers'[c].pc = "fetching"]_vars

\* one caller got a cached list from an entry 5 minutes old while another
\* caller is fetching again because the entry of its position has expired
C11_Witness ==
  \E c1, c2 \in Callers :
    /\ callers[c1].pc = "fetching"
    /\ cache[callers[c1].pos].has
    /\ callers[c1].t0 - cache[callers[c1].pos].timestamp > 600000
    /\ callers[c2].pc = "returned"
    /\ cache[callers[c2].pos].has
    /\ callers[c2].t0 > cache[callers[c2].pos].timestamp
    /\ callers[c2].t0 - cache[callers[c2].pos].timestamp < 600000
    /\ callers[c2].result = cache[callers[c2].pos].columns
    /\ callers[c2].result.known

\* ---------------------------------------------------- schema padding
\* invokeServing was called: psent is the record it was given
Sent == pout # "none"
\* mapFrontendFields(req.body || {}, pos.toUpperCase()) of the request
MappedData == mapFrontendFields(preq.body, StringOf(ToUpper(ToLower(preq.pos))))

\* C12: schema padding is idempotent: padding the record that was sent (an
\* already padded record) gives that record again, and a mapped record that
\* already has every expected schema column is sent as it is.
C12_PaddingIdempotent ==
  Sent =>
    /\ padToSchema(psent, pschema) = psent
    /\ (pschema.known /\ pschema.names \subseteq DOMAIN MappedData) => psent = MappedData

\* a record with all three schema columns was padded and sent
C12_Witness ==
  /\ Sent
  /\ pschema.known
  /\ pschema.names # {}
  /\ pschema.names \subseteq DOMAIN MappedData

\* C13 as stated: with a declared list of expected feature names the record
\* sent to the model has exactly those keys (missing ones padded with null,
\* keys outside the list truncated).
C13_ExactlySchemaKeys ==
  (Sent /\ pschema.known) => DOMAIN psent = pschema.names

\* --------------------------------------------------------- tier mapping
\* the mapping the routes are to apply: {0: D3/NAIA, 1: D2, 2: FCS, 3: Power 5}
CanonicalLabel(i) ==
  CASE i = 0 -> "D3/NAIA" [] i = 1 -> "D2" [] i = 2 -> "FCS" [] OTHER -> "Power 5"
CanonicalId(l) == CHOOSE i \in 0..3 : CanonicalLabel(i) = l
\* the class id the model returned for the record the predict route sent
ReturnedId == decodePrediction(ServingReply(pclf, psent)).classId
\* the probe behind a reported result met the requested target, by the
\* inverse of the mapping
MetTarget(e) ==
  IF e.hasProbs
  THEN e.probabilities[CanonicalId(wreq.targetLabel) + 1] >= wreq.threshold
  ELSE e.division_id = CanonicalId(wreq.targetLabel)

\* C14: tier ids and labels are related by the one mapping {0: D3/NAIA,
\* 1: D2, 2: FCS, 3: Power 5}: the tier label of a predict response and of
\* every what-if result is the mapping of the class id the model returned
\* ("Unknown" or null for an id outside 0..3), and the requested target label
\* is turned into its id by the inverse of that mapping: a result of an
\* upward search comes from a probe that met the target under the inverse,
\* a result of a downward search from one that did not.
C14_OneTierMapping ==
  /\ (ppc = "done" /\ presp.status = 200) =>
        presp.predicted_tier =
          IF ReturnedId \in 0..3 THEN CanonicalLabel(ReturnedId) ELSE "Unknown"
  /\ Done200 =>
        \A j \in 1..Len(Tried) :
          /\ Tried[j].division_label =
                IF Tried[j].division_id \in 0..3
                THEN CanonicalLabel(Tried[j].division_id) ELSE "null"
          /\ MetTarget(Tried[j]) <=> (Tried[j].direction = "higher_better")

\* a what-if request for target "FCS" reports a result of an upward search
\* for which the model returned class 2, labelled "FCS"
C14_Witness ==
  /\ Done200
  /\ wreq.targetLabel = "FCS"
  /\ \E j \in 1..Len(Tried) :
       /\ Tried[j].direction = "higher_better"
       /\ Tried[j].division_id = 2
       /\ Tried[j].division_label = "FCS"

\* ------------------------------------------------------ serving timeout
\* the invokeServing call has neither returned nor thrown
Pending == ipc \in {"headers", "body"}

\* C15: a call to the model-serving endpoint completes or fails with a
\* timeout error within the configured limit of 30 seconds: it is never
\* still pending after more than 30 seconds.
C15_CallBoundedByTimeout == Pending => ielapsed <= ServingTimeout

\* ------------------------------------------------- /evaluate properties
EDone200 == epc = "done" /\ eresp.status = 200
\* the fields the pipeline result reports as imputed
ImputedFields ==
  { f \in CombineFields : eresult.has_imputation_flags /\ eresult.imputation_flags[f] }
\* the same pipeline result with no field imputed
WithoutImputation(r) ==
  [r EXCEPT !.imputation_flags = NoFlags, !.data_completeness_warning = FALSE]

\* C16: when at least one combine field was imputed, the /evaluate response
\* surfaces it: imputation_flags is true for exactly the imputed fields and
\* data_completeness_warning is true.
C16_ImputationSurfaced ==
  (EDone200 /\ ImputedFields # {}) =>
    /\ \A f \in CombineFields : eresp.imputation_flags[f] <=> (f \in ImputedFields)
    /\ eresp.data_completeness_warning

\* C17: an evaluation with at least one imputed combine field is returned
\* with a confidence_score lower than the one the same evaluation carries
\* when no field was imputed.
C17_ReducedConfidence ==
  (EDone200 /\ ImputedFields # {}) =>
    eresp.confidence_score < enhancedResult(WithoutImputation(eresult)).confidence_score

\* the request carries a position neither at the root of its body nor inside
\* athlete_data
NoPosition ==
  \/ ereq.isNull
  \/ /\ ereq.root.position = Undefined
     /\ (ereq.has_athlete_data => ereq.athlete_data.position = Undefined)

\* C18: a POST /evaluate request without a position, an empty body included,
\* is answered with HTTP 400, and the pipeline is never triggered for it.
C18_NoPositionRejected ==
  (epc # "off" /\ NoPosition) =>
    /\ etriggered = 0
    /\ epc = "done" => eresp.status = 400

\* C19: a POST /evaluate request whose athlete_data lacks Player_Name is
\* answered with HTTP 400, and the pipeline is not triggered for it.
C19_NoPlayerNameRejected ==
  (epc # "off" /\ ~ereq.isNull /\ ereq.has_athlete_data
     /\ ereq.athlete_data.Player_Name = Undefined) =>
    /\ etriggered = 0
    /\ epc = "done" => eresp.status = 400

\* C20: feature_importance of the /evaluate response contains the
\* feature-importance entries the pipeline result reports, with their values.
C20_FeatureImportancePassedOn ==
  (EDone200 /\ eresult.has_feature_importance) =>
    \A k \in DOMAIN eresult.feature_importance :
      /\ k \in DOMAIN eresp.feature_importance
      /\ eresp.feature_importance[k] = eresult.feature_importance[k]

\* C24: every requested candidate whose slider key holds a finite number in
\* the base record is searched (classifier queries are issued for it), and
\* when one of its probed midpoints met the success condition the response
\* has a result for it.
C24_NumericCandidateSearched ==
  Done200 =>
    \A k \in DOMAIN nq :
      HasNumericValue(k) =>
        /\ nq[k] > 0
        /\ k \in okq => k \in TriedKeys

\* whether the classifier meets the success condition when slider s is moved
\* to mid
OkAt(s, mid) ==
  Success(decodePrediction(ServingReply(clf,
            padToSchema(WithField(wreq.base, FieldOf(s), mid), schema))),
          wreq.targetLabel, wreq.threshold)

\* a step from one iteration of a candidate's search to its next iteration
SearchStep == wpc = "probe" /\ wpc' = "probe" /\ si' = si /\ it' = it + 1

\* C25: every iteration narrows the range to the less-improved half after a
\* successful midpoint and to the more-improved half after a failed one: for
\* higher_better success keeps the lower half and failure the higher half,
\* for lower_better success keeps the higher half and failure the lower half.
C25_NarrowsTowardLessImproved ==
  [][ SearchStep =>
        \E mid \in Midpoints(lo, hi) :
          LET s == sliders[si]
              lowerHalf == lo' = lo /\ hi' <= mid /\ hi' < hi
              higherHalf == hi' = hi /\ lo' >= mid /\ lo' > lo
          IN IF s.direction = "higher_better"
             THEN IF OkAt(s, mid) THEN lowerHalf ELSE higherHalf
             ELSE IF OkAt(s, mid) THEN higherHalf ELSE lowerHalf ]_vars

\* a lower_better search that has narrowed from both ends
C25_Witness ==
  /\ wpc = "probe" /\ it >= 2
  /\ sliders[si].direction = "lower_better"
  /\ lo > sliders[si].min /\ hi < sliders[si].max
  /\ best.found

\* C26: a candidate's search issues at most 9 classifier queries, a request
\* at most 9 x (number of candidates), and every request ends with a response.
C26_BoundedSearchTerminates ==
  /\ [](\A k \in DOMAIN nq : nq[k] <= 9)
  /\ <>(wpc = "done")

\* a request that ended after a search of the full 9 queries
C26_Witness ==
  /\ Done200
  /\ \E k \in DOMAIN nq : nq[k] = 9

\* C27: in real mode, when the run that triggerPipeline started has reached
\* Succeeded within the five minutes, triggerPipeline resolves with an
\* evaluation result; it does not throw.
C27_SucceededRunResolves ==
  (tpc = "done" /\ trun = "Succeeded" /\ trunAt < 300000) => toutcome.ok

\* C29: a profile update acknowledged with a success response is visible to
\* every later GET /api/profile/get for the same email: the returned profile
\* has the updated values, whatever the availability of the database during
\* the update and during the read.  A later GET is one that arrives after
\* the acknowledgement (seen holds what had been acknowledged then) and is
\* served while no update for the email is in flight (clean).
C29_AckedUpdateVisible ==
  (rresp.route = "get" /\ rresp.status = 200 /\ rresp.clean) =>
    \A f \in DOMAIN rresp.seen : rresp.user[f] = rresp.seen[f]

\* C28: while the session is unauthenticated the profile held by
\* UserProfileProvider is null, also when a profile fetch started before the
\* logout completes after it.
C28_NullWhileUnauthenticated ==
  sessionStatus = "unauthenticated" => profile = NullProfile

\* the first of the four settings questions the profile has no value for, or
\* the first stats question of the profile's position when it has all four
FirstUnanswered(pr) ==
  LET open == { i \in 1..4 : SettingsQuestions[i].key \notin profileData(pr) }
  IN IF open = {} THEN StatsKeys[pr.position.v][1]
     ELSE SettingsQuestions[CHOOSE i \in open : \A j \in open : i <= j].key

ProfileJustLoaded == lastAction[1] = "init" /\ profile # NullProfile

\* C21: after the profile has loaded the wizard's current question is the
\* first settings question (name, position, graduation year, state) the
\* profile has no value for, or the first stats question when it has all
\* four; no stats or combine question is skipped.
C21_StartsAtFirstUnanswered ==
  ProfileJustLoaded => StepAt(currentSteps, step).key = FirstUnanswered(profile)

\* the stats keys of a position's question list
StatsOf(p) == { StatsKeys[p][i] : i \in 1..Len(StatsKeys[p]) }
ShownKeys == { currentSteps.items[i].key : i \in 1..Len(currentSteps.items) }

\* C22: pressing Back from the question after the position question shows the
\* position question, and when the user then chooses a different position
\* the wizard shows the new position's question list and none of the previous
\* position's stats questions.
C22_PositionCanBeChanged ==
  [][ /\ (handleBack /\ StepAt(currentSteps, step - 1).key = "position")
          => StepAt(currentSteps', step').key = "position"
      /\ (handleNext /\ StepAt(currentSteps, step).key = "position"
             /\ selectedPosition # Undefined /\ formValues'.position # selectedPosition)
          => /\ currentSteps' = Arr(positionSteps[formValues'.position])
             /\ ShownKeys' \cap StatsOf(selectedPosition) = {} ]_vars

\* the dashboard displays the answer of /api/evaluate
ShowsAnswer ==
  /\ DashboardRender = "result"
  /\ \A k \in DOMAIN answered : k \in DOMAIN evalData /\ evalData[k] = answered[k]

\* the evalResult item of sessionStorage holds the answer of /api/evaluate
StoresAnswer ==
  /\ storedResult # NoItem
  /\ \A k \in DOMAIN answered : k \in DOMAIN storedResult /\ storedResult[k] = answered[k]

\* C23: after a submit from the review step that /api/evaluate answered
\* successfully the result is stored, the user is on /dashboard, and the
\* dashboard displays the stored result.
C23_SubmitEndsOnDashboard ==
  /\ lastAction[1] = "settled" => (StoresAnswer /\ page = "dashboard")
  /\ (lastAction[1] = "dashboard" /\ answered # NoEval) =>
        (page = "dashboard" /\ ShowsAnswer)

\* C23 as the code has it: after a submit from the review step that
\* /api/evaluate answered successfully the result is stored and the page is
\* /dashboard; when the dashboard's effect then finds an authenticated
\* session it displays the stored result, and when it finds an
\* unauthenticated one the page becomes /auth/login and the result is not
\* displayed.
C23_StoredThenShownOrLogin ==
  /\ lastAction[1] = "settled" => (StoresAnswer /\ page = "dashboard")
  /\ (lastAction[1] = "dashboard" /\ answered # NoEval
         /\ sessionStatus = "authenticated") =>
        (page = "dashboard" /\ evalData = Parse(storedResult) /\ ShowsAnswer)
  /\ (lastAction[1] = "dashboard" /\ answered # NoEval
         /\ sessionStatus = "unauthenticated") =>
        (page = "login" /\ evalData = NoEval /\ StoresAnswer)

\* the session is unauthenticated and there is no profile: the answer to
\* Ann's submission is stored with the player's name and the dashboard's
\* effect has sent the user to /auth/login
C23_Witness ==
  /\ lastAction[1] = "dashboard" /\ sessionStatus = "unauthenticated"
  /\ page = "login" /\ profile = NullProfile
  /\ "predicted_tier" \in DOMAIN answered /\ answered["predicted_tier"] = Str("Power5")
  /\ "playerName" \in DOMAIN storedResult /\ storedResult["playerName"] = Str("Ann")

\* C30: the wizard's step always refers to an existing step: 0 <= step <
\* number of current steps after the profile initialisation and after every
\* Next, Back, pill click and position selection.
C30_StepInRange ==
  (page = "wizard" /\ ready) => (0 <= step /\ step < Len(currentSteps.items))

=============================================================================
